---------------------------- MODULE Spec2Model ----------------------------
(***************************************************************************)
(* Model of the write fan-out of the short-video web client: the follow    *)
(* recorder (profile page handleFollow, useFollowUser), the like recorder  *)
(* (home, trending and discover pages, useLikeVideo) and the comment       *)
(* recorder (CommentModal, home and discover pages), all acting on one     *)
(* shared Realtime Database tree.  A session is one browser tab; each      *)
(* await of a handler is one step, so that tabs interleave exactly where   *)
(* the code suspends.                                                      *)
(***************************************************************************)
EXTENDS Integers, Sequences, FiniteSets, TLC

\* ------------------------------------------------------------------ bounds
\* handler invocations explored in one behaviour
MaxOps == 4
\* comment handler invocations explored in one behaviour
MaxCommentOps == 3
\* push() keys (comments and replies) created in one behaviour
MaxComments == 2
\* length of the text a user types into a comment box
MaxTextLen == 2
\* length of a session email
MaxEmailLen == 4
\* records in the videos collection
MaxVideos == 4
\* distinct createdAt instants
MaxStamp == 3
\* greatest limit passed to useVideos besides the default
MaxLimit == 2
\* greatest likes / comments counter of a listed video
MaxCount == 1
\* handleDeleteVideo invocations in one behaviour
MaxDeletes == 1
\* records in the collection the search bar scans
MaxSearchVideos == 2
\* length of a video title
MaxTitleLen == 2
\* length of a search term
MaxTermLen == 2
\* accounts the seeding script may follow
MaxTargets == 3
\* followers counter of a target before the follow loop
MaxBase == 1

\* ------------------------------------------------------------------ universe
Users == {"u1", "u2"}
NoUser == "nobody"
Sessions == {"s1", "s2"}
NoPage == "nopage"

VARIABLES
    user,           \* useAuth().user of each tab: a uid or NoUser
    page,           \* the page each tab shows
    serial,         \* TRUE in runs whose actions are issued one at a time
    nops,           \* handler invocations started so far (bounded by MaxOps)
    \* ---- store, follow part
    profile,        \* users/{uid}/profile : [exists, followers, following]
    userFollowing,  \* userFollowing/{follower}/{followee}
    userFollowers,  \* userFollowers/{followee}/{follower}
    follows,        \* follows/{follower}/{followee}
    usersFollowing, \* users/{follower}/following/{followee}
    usersFollowers, \* users/{followee}/followers/{follower}
    \* ---- tab state, follow part
    viewing,        \* profile page: the loaded profile id (router.query.id) or NoPage
    isFollowing,    \* profile page: useState isFollowing
    fpc,            \* position of the tab inside handleFollow / useFollowUser
    fbranch,        \* isFollowing as read when the running handler started
    fsnap,          \* profile snapshot read by the running handleFollow
    qFollowing,     \* useIsFollowing query data: targets cached as followed
    pending,        \* useFollowUser: writes of Promise.all not yet applied
    fpre,           \* history: store facts at the start of the running handler
    lastDone,       \* history: the handler invocation that completed last
    \* ---- store, video part
    video,          \* videos/{videoId} : [likes, likedBy, comments]
    \* ---- tab state, like part
    hcache,         \* home page: likedBy[user.uid] of the video in the useVideos data
    dcur,           \* discover page: likedBy[user.uid] of the currentVideo state
    dkey,           \* discover page: the same, as captured by the keydown listener
    lpc,            \* position of the tab inside a like handler
    lsnap,          \* what the running like handler read: [likes, isLiked]
    acted,          \* tabs that have issued a like action
    lpre,           \* history: the like action the tab is running
    ldone,          \* history: the like action that completed last
    \* ---- store, comment part
    vcomments,      \* videoComments/{videoId} : commentId -> record
    userComments,   \* userComments/{uid}/{commentId}
    nextId,         \* how many push() keys have been handed out
    \* ---- tab state, comment part
    clist,          \* the comments state of the page: the list it shows
    cpc,            \* position of the tab inside a comment handler
    csnap,          \* the video record the running handler read
    rsnap,          \* the parent comment record the running handler read
    cpre,           \* history: the comment action the tab is running
    cdone,          \* history: the comment action that completed last
    \* ---- profile page load
    email,          \* user.email of each account's session: a sequence or NoEmail
    pname,          \* users/{uid}/profile name and email; the fields stored at users/{uid} itself
    shown,          \* profile page: the profile state
    perror,         \* profile page: the error state
    ppc,            \* position of the tab inside fetchProfile
    psnap,          \* fetchProfile: snapshot.exists() as read
    pdone,          \* history: per tab, the fetchProfile run that completed last
    \* ---- store, video collection
    coll,           \* videos : the records in key order
    uvideos,        \* users/{uid}/videos/{videoId}
    assets,         \* blob storage: ids of the videos whose file is stored
    \* ---- page state, feeds
    hvideos,        \* home page, first revision: the videos state
    herror,         \* home page, first revision: the error state
    qvideos,        \* home page: data of the useVideos query
    tlists,         \* trending page: mostLiked / mostCommented / recent states
    tquery,         \* data of the useTrendingVideos query
    results,        \* search bar: the results state
    pvideos,        \* profile page of each tab: the videos state
    vpc,            \* position of the tab inside handleDeleteVideo
    vcur,           \* handleDeleteVideo: the running invocation
    fdone,          \* history: the feed assembly or video action that completed last
    \* seeding script: retry(operation, retries, delayMs, backoff)
    rargs,          \* history: the arguments of the outermost call
    retries,        \* argument of the running call
    delayMs,        \* argument of the running call
    backoff,        \* argument of the running call
    rpc,            \* position inside retry
    rcalls,         \* history: number of invocations of operation
    rwaits,         \* history: the delays waited, in order
    rerrs,          \* history: the errors thrown by the attempts, in order
    rout,           \* what the outermost call returned or threw
    \* seeding script: the follow loop of createUserWithProfile
    sfollows,       \* follows/{uid}: the targets of the new user
    sfollowing,     \* users/{uid}/profile/following
    sfollowers,     \* users/{target}/profile/followers of every target
    sbase,          \* history: the followers counters before the loop
    usersToFollow,  \* the targets the loop has not visited yet
    numToFollow,    \* Math.min(10, allUserIds.length)
    spc,            \* position inside the loop
    ssnap           \* currentFollowers

followStore == <<profile, userFollowing, userFollowers, follows, usersFollowing, usersFollowers>>
followTab == <<viewing, isFollowing, fpc, fbranch, fsnap, qFollowing, pending, fpre, lastDone>>
followVars == <<followStore, followTab>>
likeTab == <<hcache, dcur, dkey, lpc, lsnap, acted, lpre, ldone>>
likeVars == <<video, likeTab>>
commentStore == <<vcomments, userComments, nextId>>
commentTab == <<clist, cpc, csnap, rsnap, cpre, cdone>>
commentVars == <<commentStore, commentTab>>
loadVars == <<email, pname, shown, perror, ppc, psnap, pdone>>
feedStore == <<coll, uvideos, assets>>
feedVars == <<feedStore, hvideos, herror, qvideos, tlists, tquery, results, pvideos, vpc, vcur, fdone>>
retryVars == <<rargs, retries, delayMs, backoff, rpc, rcalls, rwaits, rerrs, rout>>
loopVars == <<sfollows, sfollowing, sfollowers, sbase, usersToFollow, numToFollow, spc, ssnap>>
seedVars == <<retryVars, loopVars>>
laterVars == <<loadVars, feedVars, seedVars>>
notLoad == <<feedStore, hvideos, herror, qvideos, tlists, tquery, results, vpc, vcur, fdone, seedVars>>
notFeedOp == <<user, page, serial, followVars, likeVars, commentVars, loadVars, seedVars>>
webVars == <<user, page, serial, nops, followVars, likeVars, commentVars, loadVars, feedVars>>
notFeed == <<nops, notFeedOp>>
notFollow == <<page, serial, likeVars, commentVars, laterVars>>
notLike == <<page, serial, followVars, commentVars, laterVars>>
notComment == <<page, serial, followVars, likeTab, laterVars>>
vars == <<user, page, serial, nops, followVars, likeVars, commentVars, laterVars>>

\* ------------------------------------------------------------------ helpers
Max(a, b) == IF a >= b THEN a ELSE b

NoSnap == [exists |-> FALSE, followers |-> 0, following |-> 0]
NoPre == [op |-> "none"]

\* Math.max(0, (x || 0) - 1)
DecFloor(n) == Max(0, n - 1)

\* an absent counter
Missing == -1
\* x || 0
OrZero(x) == IF x = Missing THEN 0 ELSE x
\* x || 1
OrOne(x) == IF x = Missing \/ x = 0 THEN 1 ELSE x

\* update(ref, {field: increment(d)}): the server adds d to the stored number,
\* an absent field counting as 0; the node is created when absent
IncFollowers(p, d) == [exists |-> TRUE, followers |-> p.followers + d, following |-> p.following]
IncFollowing(p, d) == [exists |-> TRUE, followers |-> p.followers, following |-> p.following + d]

\* ------------------------------------------------------------------ follow recorder
\* checkFollowStatus: get(follows/{user.uid}/{profileId}).exists()
CheckFollowStatus(u, p) == u # NoUser /\ <<u, p>> \in follows

\* FollowListModal.fetchUsers: the keys under userFollowers/{userId} or under
\* follows/{userId}, without those that have no profile record
FetchUsers(userId, type) ==
    LET ids == IF type = "followers"
               THEN {e[1] : e \in {x \in userFollowers : x[2] = userId}}
               ELSE {e[2] : e \in {x \in follows : x[1] = userId}}
    IN {id \in ids : profile[id].exists}

\* the facts about the pair (u follows t) that the claims compare across a handler
PairFacts(u, t, idxFollowing, idxFollowers) ==
    [ followers |-> profile[t].followers,
      following |-> profile[u].following,
      exist     |-> profile[t].exists /\ profile[u].exists,
      anyEdge   |-> <<u, t>> \in (userFollowing \cup userFollowers \cup follows
                                   \cup usersFollowing \cup usersFollowers),
      inFollowing |-> <<u, t>> \in idxFollowing,
      inFollowers |-> <<u, t>> \in idxFollowers ]

Idle(s) ==
    /\ fpc[s] = "idle" /\ lpc[s] = "idle" /\ cpc[s] = "idle"
    /\ ppc[s] = "idle" /\ vpc[s] = "idle"
Quiet == \A s \in Sessions : Idle(s)
\* a tab may start something: it is idle and, in a serial run, so is every tab
Turn(s) == Idle(s) /\ (serial => Quiet)

\* fetchProfile on a (re)load of /profile/{p}: the page keeps the profile when
\* the record exists, and then derives isFollowing through checkFollowStatus
LoadProfile(s, p) ==
    /\ Turn(s)
    /\ profile[p].exists
    /\ viewing' = [viewing EXCEPT ![s] = p]
    /\ isFollowing' = [isFollowing EXCEPT ![s] =
                          IF user[s] # NoUser /\ user[s] # p
                          THEN CheckFollowStatus(user[s], p) ELSE FALSE]
    /\ UNCHANGED notFollow
    /\ UNCHANGED <<user, nops, followStore, fpc, fbranch, fsnap, qFollowing, pending, fpre, lastDone>>

\* handleFollow up to its first await: the guard, the branch on isFollowing and
\* the write of userFollowing/{user.uid}/{profileId}
FollowingRefWrite(idx, e, unfollow) == IF unfollow THEN idx \ {e} ELSE idx \cup {e}
FollowersRefWriteKeep(idx, e, unfollow) == idx \cup {e}
FollowersRefWrite(idx, e, unfollow) == IF unfollow THEN idx \ {e} ELSE idx \cup {e}

HandleFollowStart(s) ==
    /\ Turn(s)
    /\ nops < MaxOps
    /\ user[s] # NoUser /\ viewing[s] # NoPage /\ user[s] # viewing[s]
    /\ nops' = nops + 1
    /\ fbranch' = [fbranch EXCEPT ![s] = isFollowing[s]]
    /\ fpre' = [fpre EXCEPT ![s] =
                   [op |-> IF isFollowing[s] THEN "unfollow" ELSE "follow", via |-> "page",
                    actor |-> user[s], target |-> viewing[s],
                    pre |-> PairFacts(user[s], viewing[s], userFollowing, userFollowers)]]
    /\ userFollowing' = FollowingRefWrite(userFollowing, <<user[s], viewing[s]>>, isFollowing[s])
    /\ fpc' = [fpc EXCEPT ![s] = "followersRef"]
    /\ UNCHANGED notFollow
    /\ UNCHANGED <<user, profile, userFollowers, follows, usersFollowing, usersFollowers,
                   viewing, isFollowing, fsnap, qFollowing, pending, lastDone>>

\* remove/set userFollowers/{profileId}/{user.uid}
HandleFollowFollowersRef(s) ==
    /\ fpc[s] = "followersRef"
    /\ userFollowers' = FollowersRefWrite(userFollowers, <<user[s], viewing[s]>>, fbranch[s])
    /\ fpc' = [fpc EXCEPT ![s] = "getTarget"]
    /\ UNCHANGED notFollow
    /\ UNCHANGED <<user, nops, profile, userFollowing, follows, usersFollowing, usersFollowers,
                   viewing, isFollowing, fbranch, fsnap, qFollowing, pending, fpre, lastDone>>

\* get(users/{profileId}/profile)
HandleFollowGetTarget(s) ==
    /\ fpc[s] = "getTarget"
    /\ fsnap' = [fsnap EXCEPT ![s] = profile[viewing[s]]]
    /\ fpc' = [fpc EXCEPT ![s] = "setTarget"]
    /\ UNCHANGED notFollow
    /\ UNCHANGED <<user, nops, followStore, viewing, isFollowing, fbranch, qFollowing, pending, fpre, lastDone>>

\* the counter literal handleFollow writes back: floored decrement or increment
NewCountKeep(old, unfollow) == old
NewCount(old, unfollow) == IF unfollow THEN DecFloor(old) ELSE old + 1

\* set(users/{profileId}/profile, {...snapshot, followers: n}) when the snapshot exists
HandleFollowSetTarget(s) ==
    /\ fpc[s] = "setTarget"
    /\ profile' = IF fsnap[s].exists
                  THEN [profile EXCEPT ![viewing[s]] =
                           [fsnap[s] EXCEPT !.followers = NewCount(fsnap[s].followers, fbranch[s])]]
                  ELSE profile
    /\ fpc' = [fpc EXCEPT ![s] = "getOwn"]
    /\ UNCHANGED notFollow
    /\ UNCHANGED <<user, nops, userFollowing, userFollowers, follows, usersFollowing, usersFollowers,
                   viewing, isFollowing, fbranch, fsnap, qFollowing, pending, fpre, lastDone>>

\* get(users/{user.uid}/profile)
HandleFollowGetOwn(s) ==
    /\ fpc[s] = "getOwn"
    /\ fsnap' = [fsnap EXCEPT ![s] = profile[user[s]]]
    /\ fpc' = [fpc EXCEPT ![s] = "setOwn"]
    /\ UNCHANGED notFollow
    /\ UNCHANGED <<user, nops, followStore, viewing, isFollowing, fbranch, qFollowing, pending, fpre, lastDone>>

\* set(users/{user.uid}/profile, {...snapshot, following: n}), then setIsFollowing
HandleFollowSetOwn(s) ==
    /\ fpc[s] = "setOwn"
    /\ profile' = IF fsnap[s].exists
                  THEN [profile EXCEPT ![user[s]] =
                           [fsnap[s] EXCEPT !.following = NewCount(fsnap[s].following, fbranch[s])]]
                  ELSE profile
    /\ isFollowing' = [isFollowing EXCEPT ![s] = ~fbranch[s]]
    /\ fpc' = [fpc EXCEPT ![s] = "idle"]
    /\ fsnap' = [fsnap EXCEPT ![s] = NoSnap]
    /\ lastDone' = fpre[s]
    /\ fpre' = [fpre EXCEPT ![s] = NoPre]
    /\ UNCHANGED notFollow
    /\ UNCHANGED <<user, nops, userFollowing, userFollowers, follows, usersFollowing, usersFollowers,
                   viewing, fbranch, qFollowing, pending>>

\* a store call of handleFollow after its first write rejects: the catch
\* logs and sets the error, the finally clears followLoading
FollowFailure(s) ==
    [op |-> "failed", of |-> fpre[s].op, at |-> fpc[s], tab |-> s,
     actor |-> user[s], target |-> viewing[s], pre |-> fpre[s].pre]
HandleFollowRejectsUndo(s) ==
    /\ fpc[s] \in {"followersRef", "getTarget", "setTarget", "getOwn", "setOwn"}
    /\ userFollowing' = FollowingRefWrite(userFollowing, <<user[s], viewing[s]>>, ~fbranch[s])
    /\ fpc' = [fpc EXCEPT ![s] = "idle"]
    /\ fsnap' = [fsnap EXCEPT ![s] = NoSnap]
    /\ lastDone' = FollowFailure(s)
    /\ fpre' = [fpre EXCEPT ![s] = NoPre]
    /\ UNCHANGED notFollow
    /\ UNCHANGED <<user, nops, profile, userFollowers, follows, usersFollowing, usersFollowers,
                   viewing, isFollowing, fbranch, qFollowing, pending>>
HandleFollowRejects(s) ==
    /\ fpc[s] \in {"followersRef", "getTarget", "setTarget", "getOwn", "setOwn"}
    /\ fpc' = [fpc EXCEPT ![s] = "idle"]
    /\ fsnap' = [fsnap EXCEPT ![s] = NoSnap]
    /\ lastDone' = FollowFailure(s)
    /\ fpre' = [fpre EXCEPT ![s] = NoPre]
    /\ UNCHANGED notFollow
    /\ UNCHANGED <<user, nops, followStore, viewing, isFollowing, fbranch, qFollowing, pending>>

\* ---- useFollowUser: the four writes of Promise.all, applied in any order
HookWrites == {"followRef", "followerRef", "followersCount", "followingCount"}

\* the mutation is called with the data of the useIsFollowing query of the tab
UseFollowUserStart(s, t) ==
    /\ Turn(s)
    /\ nops < MaxOps
    /\ user[s] # NoUser /\ t # user[s]
    /\ nops' = nops + 1
    /\ fbranch' = [fbranch EXCEPT ![s] = t \in qFollowing[s]]
    /\ fpre' = [fpre EXCEPT ![s] =
                   [op |-> IF t \in qFollowing[s] THEN "unfollow" ELSE "follow", via |-> "hook",
                    actor |-> user[s], target |-> t,
                    pre |-> PairFacts(user[s], t, usersFollowing, usersFollowers)]]
    /\ pending' = [pending EXCEPT ![s] = HookWrites]
    /\ fpc' = [fpc EXCEPT ![s] = "hook"]
    /\ UNCHANGED notFollow
    /\ UNCHANGED <<user, followStore, viewing, isFollowing, fsnap, qFollowing, lastDone>>

\* increment(-1) / increment(1), as useFollowUser passes it for either counter
HookDelta(cur, unfollow) == IF unfollow THEN -1 ELSE 1

\* useIsFollowing queryFn: get(users/{followerId}/following/{followingId}).exists()
IsFollowingQuery(u, t, idx) == <<u, t>> \in idx

\* one write of the mutation reaches the store; after the last one onSuccess
\* invalidates ['following', follower, target] and the query refetches
UseFollowUserWrite(s, w) ==
    /\ fpc[s] = "hook"
    /\ w \in pending[s]
    /\ LET u == fpre[s].actor
           t == fpre[s].target
           e == <<u, t>>
           un == fbranch[s]
           idxFollowing == IF w = "followRef"
                           THEN (IF un THEN usersFollowing \ {e} ELSE usersFollowing \cup {e})
                           ELSE usersFollowing
       IN /\ usersFollowing' = idxFollowing
          /\ usersFollowers' = IF w = "followerRef"
                               THEN (IF un THEN usersFollowers \ {e} ELSE usersFollowers \cup {e})
                               ELSE usersFollowers
          /\ profile' = CASE w = "followersCount" ->
                               [profile EXCEPT ![t] = IncFollowers(@, HookDelta(@.followers, un))]
                          [] w = "followingCount" ->
                               [profile EXCEPT ![u] = IncFollowing(@, HookDelta(@.following, un))]
                          [] OTHER -> profile
          /\ pending' = [pending EXCEPT ![s] = @ \ {w}]
          /\ IF pending[s] = {w}
             THEN /\ fpc' = [fpc EXCEPT ![s] = "idle"]
                  /\ qFollowing' = [qFollowing EXCEPT ![s] =
                                       IF IsFollowingQuery(u, t, idxFollowing)
                                       THEN @ \cup {t} ELSE @ \ {t}]
                  /\ lastDone' = fpre[s]
                  /\ fpre' = [fpre EXCEPT ![s] = NoPre]
             ELSE UNCHANGED <<fpc, qFollowing, lastDone, fpre>>
    /\ UNCHANGED notFollow
    /\ UNCHANGED <<user, nops, userFollowing, userFollowers, follows, viewing, isFollowing, fbranch, fsnap>>

\* the useIsFollowing query of a tab (re)fetches: on mount, on focus, when stale
RefetchIsFollowing(s, t) ==
    /\ Turn(s)
    /\ user[s] # NoUser /\ t # user[s]
    /\ qFollowing' = [qFollowing EXCEPT ![s] =
                         IF IsFollowingQuery(user[s], t, usersFollowing) THEN @ \cup {t} ELSE @ \ {t}]
    /\ UNCHANGED notFollow
    /\ UNCHANGED <<user, nops, followStore, viewing, isFollowing, fpc, fbranch, fsnap, pending, fpre, lastDone>>


\* ------------------------------------------------------------------ like recorder
\* a freshly uploaded video: likes: 0, comments: 0, no likedBy
FreshVideo == [likes |-> 0, likedBy |-> {}, comments |-> 0, views |-> 0]
NoLikeSnap == [likes |-> 0, isLiked |-> FALSE]

\* likedBy && likedBy[uid], as a page state: not loaded, truthy or falsy
Flag(b) == IF b THEN "liked" ELSE "unliked"
LikedIn(v, u) == u \in v.likedBy

\* set(likedByRef, true) / set(likedByRef, null)
SetLikedBy(v, u, isLiked) ==
    [v EXCEPT !.likedBy = IF isLiked THEN @ \ {u} ELSE @ \cup {u}]
\* update(videoRef, {likes: increment(isLiked ? -1 : 1)})
IncrementLikes(v, isLiked) ==
    [v EXCEPT !.likes = IF isLiked THEN @ - 1 ELSE @ + 1]

LikeOp(s, isLiked) ==
    [op |-> IF isLiked THEN "unlike" ELSE "like", actor |-> user[s], pre |-> video]

\* a like action may start: the tab's turn, and the run's budget of actions
MayAct(s) ==
    /\ Turn(s)
    /\ user[s] # NoUser
    /\ nops < MaxOps
    /\ serial \/ s \notin acted

LikeInitLocal ==
    /\ hcache = [s \in Sessions |-> "none"]
    /\ dcur = [s \in Sessions |-> "none"]
    /\ dkey = [s \in Sessions |-> "none"]
    /\ lpc = [s \in Sessions |-> "idle"]
    /\ lsnap = [s \in Sessions |-> NoLikeSnap]
    /\ acted = {}
    /\ lpre = [s \in Sessions |-> NoPre]
    /\ ldone = NoPre
LikeInitTabs ==
    /\ video = FreshVideo
    /\ LikeInitLocal

\* ---- home page, first revision: read, then write the literal count
HomeLikeGet(s) ==
    /\ MayAct(s)
    /\ page[s] = "homeOld"
    /\ nops' = nops + 1
    /\ acted' = acted \cup {s}
    /\ lsnap' = [lsnap EXCEPT ![s] = [likes |-> video.likes, isLiked |-> LikedIn(video, user[s])]]
    /\ lpre' = [lpre EXCEPT ![s] = LikeOp(s, LikedIn(video, user[s]))]
    /\ lpc' = [lpc EXCEPT ![s] = "homeWrite"]
    /\ UNCHANGED notLike
    /\ UNCHANGED <<user, video, hcache, dcur, dkey, ldone>>

\* update(videoRef, {likedBy/uid: true | null, likes: (videoData.likes || 0) +- 1})
HomeLikeWrite(s) ==
    /\ lpc[s] = "homeWrite"
    /\ video' = [SetLikedBy(video, user[s], lsnap[s].isLiked) EXCEPT
                    !.likes = IF lsnap[s].isLiked THEN lsnap[s].likes - 1 ELSE lsnap[s].likes + 1]
    /\ lpc' = [lpc EXCEPT ![s] = "idle"]
    /\ lsnap' = [lsnap EXCEPT ![s] = NoLikeSnap]
    /\ ldone' = lpre[s]
    /\ lpre' = [lpre EXCEPT ![s] = NoPre]
    /\ UNCHANGED notLike
    /\ UNCHANGED <<user, nops, hcache, dcur, dkey, acted>>

\* ---- home page with useVideos / useLikeVideo
\* the useVideos query (re)fetches: on mount, on focus, when stale
VideosRefetch(s) ==
    /\ Turn(s)
    /\ page[s] = "home"
    /\ user[s] # NoUser
    /\ hcache' = [hcache EXCEPT ![s] = Flag(LikedIn(video, user[s]))]
    /\ UNCHANGED notLike
    /\ UNCHANGED <<user, nops, video, dcur, dkey, lpc, lsnap, acted, lpre, ldone>>

\* the query key of useVideos(limit = 10), and the key onMutate patches
DefaultLimit == 10
VideosQueryKey == <<"videos", DefaultLimit>>
OnMutateKey == <<"videos">>
\* queryClient.setQueryData(key, old => updateVideoCache(old)) as seen in the
\* entry the home feed renders: setQueryData addresses one entry by its exact
\* key, and an updater that is handed undefined leaves the cache as it is
SetQueryData(entry, key, isLiked) ==
    IF key = VideosQueryKey /\ entry # "none" THEN Flag(~isLiked) ELSE entry

\* handleLike reads isLiked from the cached list and starts the mutation:
\* onMutate patches the cache, the first await is the counter update
UseLikeVideoIncrement(s) ==
    /\ MayAct(s)
    /\ page[s] = "home"
    /\ hcache[s] # "none"
    /\ nops' = nops + 1
    /\ acted' = acted \cup {s}
    /\ lsnap' = [lsnap EXCEPT ![s] = [likes |-> 0, isLiked |-> hcache[s] = "liked"]]
    /\ lpre' = [lpre EXCEPT ![s] = LikeOp(s, hcache[s] = "liked")]
    /\ hcache' = [hcache EXCEPT ![s] = SetQueryData(@, OnMutateKey, hcache[s] = "liked")]
    /\ video' = IncrementLikes(video, hcache[s] = "liked")
    /\ lpc' = [lpc EXCEPT ![s] = "mutationFlag"]
    /\ UNCHANGED notLike
    /\ UNCHANGED <<user, dcur, dkey, ldone>>

\* set(likedByRef, ...); onSettled invalidates ['videos'] and the list refetches
UseLikeVideoFlag(s) ==
    /\ lpc[s] = "mutationFlag"
    /\ video' = SetLikedBy(video, user[s], lsnap[s].isLiked)
    /\ hcache' = [hcache EXCEPT ![s] = Flag(LikedIn(video', user[s]))]
    /\ lpc' = [lpc EXCEPT ![s] = "idle"]
    /\ lsnap' = [lsnap EXCEPT ![s] = NoLikeSnap]
    /\ ldone' = lpre[s]
    /\ lpre' = [lpre EXCEPT ![s] = NoPre]
    /\ UNCHANGED notLike
    /\ UNCHANGED <<user, nops, dcur, dkey, acted>>


\* set(likedByRef, ...) rejects: the mutation settles with an error; onError
\* puts the earlier cache back, onSettled invalidates and the list refetches
UseLikeVideoFlagRejects(s) ==
    /\ lpc[s] = "mutationFlag"
    /\ hcache' = [hcache EXCEPT ![s] = Flag(LikedIn(video, user[s]))]
    /\ lpc' = [lpc EXCEPT ![s] = "idle"]
    /\ lsnap' = [lsnap EXCEPT ![s] = NoLikeSnap]
    /\ ldone' = [op |-> "failed", of |-> lpre[s].op, tab |-> s, actor |-> user[s], pre |-> lpre[s].pre]
    /\ lpre' = [lpre EXCEPT ![s] = NoPre]
    /\ UNCHANGED notLike
    /\ UNCHANGED <<user, nops, video, dcur, dkey, acted>>

\* ---- trending page handleLike: get, then increment, then flag
TrendingLikeGet(s) ==
    /\ MayAct(s)
    /\ page[s] = "trending"
    /\ nops' = nops + 1
    /\ acted' = acted \cup {s}
    /\ lsnap' = [lsnap EXCEPT ![s] = [likes |-> 0, isLiked |-> LikedIn(video, user[s])]]
    /\ lpre' = [lpre EXCEPT ![s] = LikeOp(s, LikedIn(video, user[s]))]
    /\ lpc' = [lpc EXCEPT ![s] = "trendingIncrement"]
    /\ UNCHANGED notLike
    /\ UNCHANGED <<user, video, hcache, dcur, dkey, ldone>>

TrendingLikeIncrement(s) ==
    /\ lpc[s] = "trendingIncrement"
    /\ video' = IncrementLikes(video, lsnap[s].isLiked)
    /\ lpc' = [lpc EXCEPT ![s] = "trendingFlag"]
    /\ UNCHANGED notLike
    /\ UNCHANGED <<user, nops, hcache, dcur, dkey, lsnap, acted, lpre, ldone>>

TrendingLikeFlag(s) ==
    /\ lpc[s] = "trendingFlag"
    /\ video' = SetLikedBy(video, user[s], lsnap[s].isLiked)
    /\ lpc' = [lpc EXCEPT ![s] = "idle"]
    /\ lsnap' = [lsnap EXCEPT ![s] = NoLikeSnap]
    /\ ldone' = lpre[s]
    /\ lpre' = [lpre EXCEPT ![s] = NoPre]
    /\ UNCHANGED notLike
    /\ UNCHANGED <<user, nops, hcache, dcur, dkey, acted>>

\* ---- handleVideoPlay of the trending page, useIncrementViews of the home page
\* the database rules: ".write": "auth != null"
MayWrite(u) == u # NoUser
\* update(videoRef, {views: increment(1)})
IncrementViews(v) == [v EXCEPT !.views = @ + 1]
ViewOp(s) == [op |-> "view", actor |-> user[s], tab |-> s, pre |-> video]
\* the handler issues the update whoever the user is; the store applies it
\* when its rules allow the write
HandleVideoPlay(s) ==
    /\ Turn(s)
    /\ page[s] \in {"home", "trending"}
    /\ nops < MaxOps
    /\ nops' = nops + 1
    /\ video' = IF MayWrite(user[s]) THEN IncrementViews(video) ELSE video
    /\ ldone' = ViewOp(s)
    /\ UNCHANGED notLike
    /\ UNCHANGED <<user, hcache, dcur, dkey, lpc, lsnap, acted, lpre>>

\* ---- discover page
\* the onValue listener on videos/ delivers the stored record to currentVideo
DiscoverSync(s) ==
    /\ Turn(s)
    /\ page[s] = "discover"
    /\ user[s] # NoUser
    /\ dcur' = [dcur EXCEPT ![s] = Flag(LikedIn(video, user[s]))]
    /\ UNCHANGED notLike
    /\ UNCHANGED <<user, nops, video, hcache, dkey, lpc, lsnap, acted, lpre, ldone>>

\* the keydown effect runs again (its dependencies are currentIndex and
\* isPlaying: a navigation or a play/pause) and captures the handleLike of
\* that render, with the currentVideo of that render
DiscoverRebind(s) ==
    /\ Turn(s)
    /\ page[s] = "discover"
    /\ dcur[s] # "none"
    /\ dkey[s] # dcur[s]
    /\ dkey' = [dkey EXCEPT ![s] = dcur[s]]
    /\ UNCHANGED notLike
    /\ UNCHANGED <<user, nops, video, hcache, dcur, lpc, lsnap, acted, lpre, ldone>>

\* handleLike of the discover page, run with the currentVideo it closes over:
\* one update of likes: increment(+-1) and likedBy/uid together, then
\* setCurrentVideo toggles the flag of the state
DiscoverLike(s, seen) ==
    /\ MayAct(s)
    /\ page[s] = "discover"
    /\ seen # "none"
    /\ nops' = nops + 1
    /\ acted' = acted \cup {s}
    /\ video' = SetLikedBy(IncrementLikes(video, seen = "liked"), user[s], seen = "liked")
    /\ dcur' = [dcur EXCEPT ![s] = Flag(seen # "liked")]
    /\ ldone' = LikeOp(s, seen = "liked")
    /\ UNCHANGED notLike
    /\ UNCHANGED <<user, hcache, dkey, lpc, lsnap, lpre>>

\* the like button calls the handleLike of the current render
DiscoverLikeButton(s) == DiscoverLike(s, dcur[s])
\* the 'l' key calls the handleLike the listener captured
DiscoverLikeKey(s) == DiscoverLike(s, dkey[s])

\* ------------------------------------------------------------------ comment recorder
Chars == {"a", " "}
Texts == UNION {[1..n -> Chars] : n \in 0..MaxTextLen}

\* String.prototype.trim
RECURSIVE TrimLeft(_)
TrimLeft(t) == IF t = <<>> THEN <<>>
               ELSE IF Head(t) = " " THEN TrimLeft(Tail(t)) ELSE t
RECURSIVE TrimRight(_)
TrimRight(t) == IF t = <<>> THEN <<>>
                ELSE IF t[Len(t)] = " " THEN TrimRight(SubSeq(t, 1, Len(t) - 1)) ELSE t
Trim(t) == TrimRight(TrimLeft(t))

\* one of the quickComments of the modal
QuickComment == <<"a">>

\* a stored comment; a node that holds replies only has no userId and no text
\* hasCount: the record has a replyCount field (read as replyCount || 0 when absent)
NewComment(u, t) ==
    [userId |-> u, text |-> t, replies |-> {}, replyCount |-> 0, hasCount |-> FALSE,
     likes |-> Missing, likedBy |-> {}]
NoComment ==
    [userId |-> NoUser, text |-> <<>>, replies |-> {}, replyCount |-> 0, hasCount |-> FALSE,
     likes |-> Missing, likedBy |-> {}]
NoVideoSnap == FreshVideo
NoCommentSnap == [exists |-> FALSE, rec |-> NoComment]
Stored(vc, id) == IF id \in DOMAIN vc THEN vc[id] ELSE NoComment
Put(vc, id, rec) == [k \in DOMAIN vc \cup {id} |-> IF k = id THEN rec ELSE vc[k]]
Drop(vc, id) == [k \in DOMAIN vc \ {id} |-> vc[k]]

\* ids in descending order of creation (push keys sort by creation time)
RECURSIVE NewestFirst(_)
NewestFirst(ids) ==
    IF ids = {} THEN <<>>
    ELSE LET m == CHOOSE x \in ids : \A y \in ids : y <= x
         IN <<m>> \o NewestFirst(ids \ {m})

\* fetchComments: every record under videoComments/{videoId}, with its id,
\* author, text and replies, sorted by createdAt descending
Shown(vc, id) == [id |-> id, userId |-> vc[id].userId, text |-> vc[id].text,
                  replies |-> vc[id].replies, replyCount |-> vc[id].replyCount,
                  likes |-> vc[id].likes, likedBy |-> vc[id].likedBy]
FetchComments(vc) ==
    LET order == NewestFirst(DOMAIN vc)
    IN [i \in 1..Len(order) |-> Shown(vc, order[i])]

CommentOp(kind, s, id, parent, t) ==
    [op |-> kind, actor |-> user[s], id |-> id, parent |-> parent, text |-> t,
     preCount |-> video.comments,
     existed |-> IF parent = 0 THEN id \in DOMAIN vcomments
                 ELSE \E r \in Stored(vcomments, parent).replies : r.id = id,
     preReplyCount |-> Stored(vcomments, parent).replyCount]

MayComment(s) ==
    /\ Turn(s)
    /\ user[s] # NoUser
    /\ nops < MaxCommentOps

CommentInitStore ==
    /\ vcomments = <<>>
    /\ userComments = {}
    /\ nextId = 0
CommentInitLocal ==
    /\ clist = [s \in Sessions |-> <<>>]
    /\ cpc = [s \in Sessions |-> "idle"]
    /\ csnap = [s \in Sessions |-> NoVideoSnap]
    /\ rsnap = [s \in Sessions |-> NoCommentSnap]
    /\ cpre = [s \in Sessions |-> NoPre]
    /\ cdone = NoPre
CommentInitTabs == CommentInitStore /\ CommentInitLocal

\* ---- CommentModal
\* the modal opens: fetchComments
ModalOpen(s) ==
    /\ Turn(s)
    /\ page[s] = "modal"
    /\ user[s] # NoUser
    /\ clist' = [clist EXCEPT ![s] = FetchComments(vcomments)]
    /\ UNCHANGED notComment
    /\ UNCHANGED <<user, nops, video, commentStore, cpc, csnap, rsnap, cpre, cdone>>

\* handleSubmitComment / handleQuickComment up to the first await:
\* set(push(commentsRef), {userId, text, createdAt})
ModalPost(s, kind, typed, stored) ==
    /\ MayComment(s)
    /\ page[s] = "modal"
    /\ nextId < MaxComments
    /\ stored # <<>>
    /\ nops' = nops + 1
    /\ nextId' = nextId + 1
    /\ vcomments' = Put(vcomments, nextId + 1, NewComment(user[s], stored))
    /\ cpre' = [cpre EXCEPT ![s] = CommentOp(kind, s, nextId + 1, 0, typed)]
    /\ cpc' = [cpc EXCEPT ![s] = "getVideo"]
    /\ UNCHANGED notComment
    /\ UNCHANGED <<user, video, userComments, clist, csnap, rsnap, cdone>>

\* the same handler storing the text as typed
ModalSubmitCommentRaw(s, t) == ModalPost(s, "submit", t, IF Trim(t) = <<>> THEN <<>> ELSE t)
ModalSubmitComment(s, t) == ModalPost(s, "submit", t, Trim(t))
ModalQuickComment(s) == ModalPost(s, "quick", QuickComment, QuickComment)

\* handleDeleteComment of a top-level comment the list shows as the user's own:
\* remove(videoComments/{videoId}/{commentId})
ModalDeleteComment(s, i) ==
    /\ MayComment(s)
    /\ page[s] = "modal"
    /\ i \in DOMAIN clist[s]
    /\ clist[s][i].userId = user[s]
    /\ nops' = nops + 1
    /\ vcomments' = Drop(vcomments, clist[s][i].id)
    /\ cpre' = [cpre EXCEPT ![s] = CommentOp("delete", s, clist[s][i].id, 0, <<>>)]
    /\ cpc' = [cpc EXCEPT ![s] = "getVideo"]
    /\ UNCHANGED notComment
    /\ UNCHANGED <<user, video, userComments, nextId, clist, csnap, rsnap, cdone>>

\* get(videos/{videoId})
ModalGetVideo(s) ==
    /\ cpc[s] = "getVideo"
    /\ csnap' = [csnap EXCEPT ![s] = video]
    /\ cpc' = [cpc EXCEPT ![s] = "setVideo"]
    /\ UNCHANGED notComment
    /\ UNCHANGED <<user, nops, video, commentStore, clist, rsnap, cpre, cdone>>

\* the comments count written back with the snapshot: + 1, or - 1 floored at 0
NewCommentCount(old, kind) == IF kind = "delete" THEN Max(old - 1, 0) ELSE old + 1

\* set(videos/{videoId}, {...videoData, comments: n})
ModalSetVideo(s) ==
    /\ cpc[s] = "setVideo"
    /\ video' = [csnap[s] EXCEPT !.comments = NewCommentCount(csnap[s].comments, cpre[s].op)]
    /\ cpc' = [cpc EXCEPT ![s] = "fetch"]
    /\ UNCHANGED notComment
    /\ UNCHANGED <<user, nops, commentStore, clist, csnap, rsnap, cpre, cdone>>

\* await fetchComments() closing every handler of the modal
ModalFetch(s) ==
    /\ cpc[s] = "fetch"
    /\ clist' = [clist EXCEPT ![s] = FetchComments(vcomments)]
    /\ cpc' = [cpc EXCEPT ![s] = "idle"]
    /\ csnap' = [csnap EXCEPT ![s] = NoVideoSnap]
    /\ rsnap' = [rsnap EXCEPT ![s] = NoCommentSnap]
    /\ cdone' = cpre[s]
    /\ cpre' = [cpre EXCEPT ![s] = NoPre]
    /\ UNCHANGED notComment
    /\ UNCHANGED <<user, nops, video, commentStore>>

\* ---- CommentModal, replies
\* set(push(videoComments/{videoId}/{parent}/replies), {userId, text, ...})
AddReply(vc, parent, r) == Put(vc, parent, [Stored(vc, parent) EXCEPT !.replies = @ \cup {r}])
\* remove(videoComments/{videoId}/{parent}/replies/{id}); a node left without
\* any child does not exist
RemoveReply(vc, parent, id) ==
    IF parent \notin DOMAIN vc THEN vc
    ELSE LET rec == [vc[parent] EXCEPT !.replies = {r \in @ : r.id # id}]
         IN IF rec = NoComment THEN Drop(vc, parent) ELSE Put(vc, parent, rec)

\* handleReply on a comment of the list, up to the first await
ModalReply(s, i, t) ==
    /\ MayComment(s)
    /\ page[s] = "modal"
    /\ i \in DOMAIN clist[s]
    /\ Trim(t) # <<>>
    /\ nextId < MaxComments
    /\ nops' = nops + 1
    /\ nextId' = nextId + 1
    /\ vcomments' = AddReply(vcomments, clist[s][i].id, [id |-> nextId + 1, userId |-> user[s]])
    /\ cpre' = [cpre EXCEPT ![s] = CommentOp("reply", s, nextId + 1, clist[s][i].id, <<>>)]
    /\ cpc' = [cpc EXCEPT ![s] = "getComment"]
    /\ UNCHANGED notComment
    /\ UNCHANGED <<user, video, userComments, clist, csnap, rsnap, cdone>>

\* handleDeleteComment of a reply the list shows as the user's own
ModalDeleteReply(s, i, r) ==
    /\ MayComment(s)
    /\ page[s] = "modal"
    /\ i \in DOMAIN clist[s]
    /\ r \in clist[s][i].replies
    /\ r.userId = user[s]
    /\ nops' = nops + 1
    /\ vcomments' = RemoveReply(vcomments, clist[s][i].id, r.id)
    /\ cpre' = [cpre EXCEPT ![s] = CommentOp("deleteReply", s, r.id, clist[s][i].id, <<>>)]
    /\ cpc' = [cpc EXCEPT ![s] = "getComment"]
    /\ UNCHANGED notComment
    /\ UNCHANGED <<user, video, userComments, nextId, clist, csnap, rsnap, cdone>>

\* get(videoComments/{videoId}/{parent})
ModalGetComment(s) ==
    /\ cpc[s] = "getComment"
    /\ rsnap' = [rsnap EXCEPT ![s] = [exists |-> cpre[s].parent \in DOMAIN vcomments,
                                      rec |-> Stored(vcomments, cpre[s].parent)]]
    /\ cpc' = [cpc EXCEPT ![s] = "setComment"]
    /\ UNCHANGED notComment
    /\ UNCHANGED <<user, nops, video, commentStore, clist, csnap, cpre, cdone>>

\* the replyCount written back with the snapshot
NewReplyCount(old, kind) == IF kind = "deleteReply" THEN Max(old - 1, 0) ELSE old + 1

\* if (commentSnapshot.exists()) set(commentRef, {...commentData, replyCount: n})
ModalSetComment(s) ==
    /\ cpc[s] = "setComment"
    /\ vcomments' =
         IF rsnap[s].exists
         THEN Put(vcomments, cpre[s].parent,
                  [rsnap[s].rec EXCEPT !.replyCount = NewReplyCount(@, cpre[s].op),
                                       !.hasCount = TRUE])
         ELSE vcomments
    /\ cpc' = [cpc EXCEPT ![s] = "fetch"]
    /\ UNCHANGED notComment
    /\ UNCHANGED <<user, nops, video, userComments, nextId, clist, csnap, rsnap, cpre, cdone>>

\* ---- CommentModal, comment likes
\* a write under videoComments/{videoId}/{id}: a node left without any child
\* does not exist
WithNode(vc, id, rec) == IF rec = NoComment THEN Drop(vc, id) ELSE Put(vc, id, rec)
\* set(likedByRef, true) / set(likedByRef, null)
SetCommentLikedBy(vc, id, u, isLiked) ==
    WithNode(vc, id, [Stored(vc, id) EXCEPT !.likedBy = IF isLiked THEN @ \ {u} ELSE @ \cup {u}])
\* the literal handleLikeComment writes: (likes || 1) - 1 or (likes || 0) + 1
\* of the comment as the list showed it when the handler was called
NewCommentLikes(listed, isLiked) == IF isLiked THEN OrOne(listed) - 1 ELSE OrZero(listed) + 1
CommentLikeOp(s, entry) ==
    [op |-> "likeComment", actor |-> user[s], id |-> entry.id,
     isLiked |-> user[s] \in Stored(vcomments, entry.id).likedBy,
     listed |-> entry.likes, pre |-> Stored(vcomments, entry.id)]

\* handleLikeComment on a comment of the list: get(likedByRef), then the
\* optimistic setComments
ModalLikeGet(s, i) ==
    /\ MayComment(s)
    /\ page[s] = "modal"
    /\ i \in DOMAIN clist[s]
    /\ nops' = nops + 1
    /\ cpre' = [cpre EXCEPT ![s] = CommentLikeOp(s, clist[s][i])]
    /\ LET isLiked == user[s] \in Stored(vcomments, clist[s][i].id).likedBy IN
         clist' = [clist EXCEPT ![s][i] =
                      [@ EXCEPT !.likes = NewCommentLikes(@, isLiked),
                                !.likedBy = IF isLiked THEN @ \ {user[s]} ELSE @ \cup {user[s]}]]
    /\ cpc' = [cpc EXCEPT ![s] = "likeFlag"]
    /\ UNCHANGED notComment
    /\ UNCHANGED <<user, video, commentStore, csnap, rsnap, cdone>>

\* await set(likedByRef, ...)
ModalLikeFlag(s) ==
    /\ cpc[s] = "likeFlag"
    /\ vcomments' = SetCommentLikedBy(vcomments, cpre[s].id, user[s], cpre[s].isLiked)
    /\ cpc' = [cpc EXCEPT ![s] = "likeCount"]
    /\ UNCHANGED notComment
    /\ UNCHANGED <<user, nops, video, userComments, nextId, clist, csnap, rsnap, cpre, cdone>>

\* await set(likesRef, literal); setSubmitting(false)
ModalLikeCount(s) ==
    /\ cpc[s] = "likeCount"
    /\ vcomments' = Put(vcomments, cpre[s].id,
                        [Stored(vcomments, cpre[s].id) EXCEPT
                            !.likes = NewCommentLikes(cpre[s].listed, cpre[s].isLiked)])
    /\ cpc' = [cpc EXCEPT ![s] = "idle"]
    /\ cdone' = cpre[s]
    /\ cpre' = [cpre EXCEPT ![s] = NoPre]
    /\ UNCHANGED notComment
    /\ UNCHANGED <<user, nops, video, userComments, nextId, clist, csnap, rsnap>>

\* ---- home page
\* the comments panel of a video opens: fetchComments(video.id)
HomeFetchComments(s) ==
    /\ Turn(s)
    /\ page[s] \in {"homeOld", "home"}
    /\ clist' = [clist EXCEPT ![s] = FetchComments(vcomments)]
    /\ UNCHANGED notComment
    /\ UNCHANGED <<user, nops, video, commentStore, cpc, csnap, rsnap, cpre, cdone>>

\* handleComment up to the first await:
\* set(videoComments/{videoId}/{id}, commentData)
HomeComment(s, t) ==
    /\ MayComment(s)
    /\ page[s] \in {"homeOld", "home"}
    /\ Trim(t) # <<>>
    /\ nextId < MaxComments
    /\ nops' = nops + 1
    /\ nextId' = nextId + 1
    /\ vcomments' = Put(vcomments, nextId + 1, NewComment(user[s], Trim(t)))
    /\ cpre' = [cpre EXCEPT ![s] = CommentOp("submit", s, nextId + 1, 0, t)]
    /\ cpc' = [cpc EXCEPT ![s] = "index"]
    /\ UNCHANGED notComment
    /\ UNCHANGED <<user, video, userComments, clist, csnap, rsnap, cdone>>

\* set(userComments/{uid}/{id}, true)
HomeCommentIndex(s) ==
    /\ cpc[s] = "index"
    /\ userComments' = userComments \cup {<<cpre[s].actor, cpre[s].id>>}
    /\ cpc' = [cpc EXCEPT ![s] = "count"]
    /\ UNCHANGED notComment
    /\ UNCHANGED <<user, nops, video, vcomments, nextId, clist, csnap, rsnap, cpre, cdone>>

\* update(videoRef, {comments: increment(1)}), then the new comment is put in
\* front of the list the page shows
HomeCommentCount(s) ==
    /\ cpc[s] = "count"
    /\ video' = [video EXCEPT !.comments = @ + 1]
    /\ clist' = [clist EXCEPT ![s] =
                   <<[id |-> cpre[s].id, userId |-> cpre[s].actor, text |-> Trim(cpre[s].text),
                      replies |-> {}, replyCount |-> 0,
                      likes |-> Missing, likedBy |-> {}]>> \o @]
    /\ cpc' = [cpc EXCEPT ![s] = "idle"]
    /\ cdone' = cpre[s]
    /\ cpre' = [cpre EXCEPT ![s] = NoPre]
    /\ UNCHANGED notComment
    /\ UNCHANGED <<user, nops, commentStore, csnap, rsnap>>

\* ---- discover page
\* handleCommentSubmit: set(push(videoComments/{id}), {userId, text, createdAt, likes: 0});
\* the onValue listener on videoComments/{id} then delivers the new list
DiscoverCommentSubmit(s, t) ==
    /\ MayComment(s)
    /\ page[s] = "discover"
    /\ Trim(t) # <<>>
    /\ nextId < MaxComments
    /\ nops' = nops + 1
    /\ nextId' = nextId + 1
    /\ vcomments' = Put(vcomments, nextId + 1, NewComment(user[s], Trim(t)))
    /\ clist' = [clist EXCEPT ![s] = FetchComments(vcomments')]
    /\ cdone' = CommentOp("submit", s, nextId + 1, 0, t)
    /\ UNCHANGED notComment
    /\ UNCHANGED <<user, video, userComments, cpc, csnap, rsnap, cpre>>

\* the onValue listener on videoComments/{id} fires for a change made elsewhere
DiscoverCommentsSync(s) ==
    /\ Turn(s)
    /\ page[s] = "discover"
    /\ user[s] # NoUser
    /\ clist[s] # FetchComments(vcomments)
    /\ clist' = [clist EXCEPT ![s] = FetchComments(vcomments)]
    /\ UNCHANGED notComment
    /\ UNCHANGED <<user, nops, video, commentStore, cpc, csnap, rsnap, cpre, cdone>>

\* ------------------------------------------------------------------ profile page load
\* user.email: null, or local@domain with both parts non-empty
NoEmail == <<>>
EmailChars == {"a", "@"}
Emails ==
    {NoEmail} \cup
    {e \in UNION {[1..n -> EmailChars] : n \in 3..MaxEmailLen} :
        /\ Cardinality({i \in DOMAIN e : e[i] = "@"}) = 1
        /\ e[1] # "@" /\ e[Len(e)] # "@"}
NoName == <<>>
DefaultName == <<"U", "s", "e", "r">>

\* email.split('@')[0]
RECURSIVE SplitFirst(_)
SplitFirst(e) ==
    IF e = <<>> THEN <<>>
    ELSE IF Head(e) = "@" THEN <<>> ELSE <<Head(e)>> \o SplitFirst(Tail(e))
\* x || y on strings: the empty string and undefined are falsy
OrElse(x, y) == IF x # <<>> THEN x ELSE y

\* the record createDefaultProfile stores
DefaultProfile(e) ==
    [name |-> OrElse(SplitFirst(e), DefaultName), email |-> e, followers |-> 0, following |-> 0]
\* the UserProfile built from a stored record
FromRecord(id, d) ==
    [id |-> id, username |-> OrElse(d.name, OrElse(SplitFirst(d.email), DefaultName)),
     followers |-> d.followers, following |-> d.following]
NoShown == [id |-> NoUser, username |-> NoName, followers |-> 0, following |-> 0]
NoProfileSnap ==
    [id |-> NoUser, exists |-> FALSE, name |-> NoName, email |-> NoEmail,
     followers |-> 0, following |-> 0, wrote |-> FALSE]
NoLoad == [id |-> NoUser, existed |-> FALSE, owner |-> FALSE, wrote |-> FALSE]
\* no field stored at users/{uid} next to profile and videos
NoNode == [exists |-> FALSE, username |-> NoName, bio |-> <<>>, followers |-> 0, following |-> 0]

\* fetchVideos / refreshVideos of the profile page: the records whose userId is
\* the profile id, sorted by createdAt descending
RECURSIVE NewestFirstOf(_, _)
NewestFirstOf(stamps, idxs) ==
    IF idxs = {} THEN <<>>
    ELSE LET m == CHOOSE i \in idxs :
                    \A j \in idxs : stamps[i] > stamps[j] \/ (stamps[i] = stamps[j] /\ i <= j)
         IN <<m>> \o NewestFirstOf(stamps, idxs \ {m})
ProfileVideos(c, id) ==
    LET own == {i \in DOMAIN c : c[i].userId = id}
        order == NewestFirstOf([i \in DOMAIN c |-> c[i].createdAt], own)
    IN [k \in 1..Len(order) |-> c[order[k]]]

\* user && user.uid === userId
IsAnyUser(s, p) == user[s] # NoUser
IsOwner(s, p) == user[s] # NoUser /\ user[s] = p

LoadInitTabs ==
    /\ shown = [s \in Sessions |-> NoShown]
    /\ perror = [s \in Sessions |-> "none"]
    /\ ppc = [s \in Sessions |-> "idle"]
    /\ psnap = [s \in Sessions |-> NoProfileSnap]
    /\ pdone = [s \in Sessions |-> NoLoad]
\* every account has a record that carries its name
LoadInitStore ==
    /\ email = [u \in Users |-> <<"a", "@", "a">>]
    /\ pname = [u \in Users |-> [name |-> <<"a">>, email |-> <<"a", "@", "a">>, node |-> NoNode]]

\* fetchProfile up to its first await: setError(null), get(users/{userId}/profile)
FetchProfileGet(s, p) ==
    /\ Turn(s)
    /\ page[s] = "profile"
    /\ perror' = [perror EXCEPT ![s] = "none"]
    /\ psnap' = [psnap EXCEPT ![s] =
                   [id |-> p, exists |-> profile[p].exists,
                    name |-> pname[p].name, email |-> pname[p].email,
                    followers |-> profile[p].followers, following |-> profile[p].following,
                    wrote |-> FALSE]]
    /\ ppc' = [ppc EXCEPT ![s] = "branch"]
    /\ UNCHANGED <<user, page, serial, nops, followVars, likeVars, commentVars>>
    /\ UNCHANGED notLoad
    /\ UNCHANGED <<email, pname, shown, pdone, pvideos>>

\* no record, the caller is the owner: createDefaultProfile writes the record
FetchProfileCreate(s) ==
    /\ ppc[s] = "branch"
    /\ ~psnap[s].exists
    /\ IsOwner(s, psnap[s].id)
    /\ LET d == DefaultProfile(email[user[s]])
       IN /\ profile' = [profile EXCEPT ![psnap[s].id] =
                           [exists |-> TRUE, followers |-> d.followers, following |-> d.following]]
          /\ pname' = [pname EXCEPT ![psnap[s].id].name = d.name, ![psnap[s].id].email = d.email]
    /\ psnap' = [psnap EXCEPT ![s].wrote = TRUE]
    /\ ppc' = [ppc EXCEPT ![s] = "created"]
    /\ UNCHANGED <<user, page, serial, nops, followTab, likeVars, commentVars>>
    /\ UNCHANGED notLoad
    /\ UNCHANGED <<userFollowing, userFollowers, follows, usersFollowing, usersFollowers>>
    /\ UNCHANGED <<email, shown, perror, pdone, pvideos>>

\* setProfile of the profile createDefaultProfile returned; the follow check
\* is skipped for the owner
FetchProfileShowDefault(s) ==
    /\ ppc[s] = "created"
    /\ shown' = [shown EXCEPT ![s] = FromRecord(psnap[s].id, DefaultProfile(email[user[s]]))]
    /\ viewing' = [viewing EXCEPT ![s] = psnap[s].id]
    /\ pdone' = [pdone EXCEPT ![s] =
                   [id |-> psnap[s].id, existed |-> FALSE, owner |-> IsOwner(s, psnap[s].id),
                    wrote |-> psnap[s].wrote]]
    /\ ppc' = [ppc EXCEPT ![s] = "idle"]
    /\ psnap' = [psnap EXCEPT ![s] = NoProfileSnap]
    /\ UNCHANGED <<user, page, serial, nops, followStore, likeVars, commentVars>>
    /\ UNCHANGED notLoad
    /\ UNCHANGED <<isFollowing, fpc, fbranch, fsnap, qFollowing, pending, fpre, lastDone>>
    /\ pvideos' = [pvideos EXCEPT ![s] = ProfileVideos(coll, psnap[s].id)]
    /\ UNCHANGED <<email, pname, perror>>

\* no record, the caller is not the owner: setError('Profile not found'), return
FetchProfileNotFound(s) ==
    /\ ppc[s] = "branch"
    /\ ~psnap[s].exists
    /\ ~IsOwner(s, psnap[s].id)
    /\ perror' = [perror EXCEPT ![s] = "Profile not found"]
    /\ pdone' = [pdone EXCEPT ![s] =
                   [id |-> psnap[s].id, existed |-> FALSE, owner |-> IsOwner(s, psnap[s].id),
                    wrote |-> psnap[s].wrote]]
    /\ ppc' = [ppc EXCEPT ![s] = "idle"]
    /\ psnap' = [psnap EXCEPT ![s] = NoProfileSnap]
    /\ UNCHANGED <<user, page, serial, nops, followVars, likeVars, commentVars>>
    /\ UNCHANGED notLoad
    /\ UNCHANGED <<email, pname, shown, pvideos>>

\* the record exists: setProfile of the record read, then checkFollowStatus
\* when the caller is signed in and is not the owner
FetchProfileFound(s) ==
    /\ ppc[s] = "branch"
    /\ psnap[s].exists
    /\ shown' = [shown EXCEPT ![s] = FromRecord(psnap[s].id, psnap[s])]
    /\ viewing' = [viewing EXCEPT ![s] = psnap[s].id]
    /\ isFollowing' = [isFollowing EXCEPT ![s] =
                          IF user[s] # NoUser /\ user[s] # psnap[s].id
                          THEN CheckFollowStatus(user[s], psnap[s].id) ELSE @]
    /\ pdone' = [pdone EXCEPT ![s] =
                   [id |-> psnap[s].id, existed |-> TRUE, owner |-> IsOwner(s, psnap[s].id),
                    wrote |-> psnap[s].wrote]]
    /\ ppc' = [ppc EXCEPT ![s] = "idle"]
    /\ psnap' = [psnap EXCEPT ![s] = NoProfileSnap]
    /\ UNCHANGED <<user, page, serial, nops, followStore, likeVars, commentVars>>
    /\ UNCHANGED notLoad
    /\ UNCHANGED <<fpc, fbranch, fsnap, qFollowing, pending, fpre, lastDone>>
    /\ pvideos' = [pvideos EXCEPT ![s] = ProfileVideos(coll, psnap[s].id)]
    /\ UNCHANGED <<email, pname, perror>>

\* ---- handleProfileUpdate (no new picture chosen)
\* set(users/{userId}, {...profile, bio: newBio, profilePicture}): the node
\* users/{userId} becomes the UserProfile of the page state, and with it the
\* children profile and videos of that node are gone
EditOp(s) ==
    [id |-> viewing[s], existed |-> TRUE, owner |-> TRUE, wrote |-> TRUE,
     pre |-> [profile |-> profile[viewing[s]], name |-> pname[viewing[s]].name,
              videos |-> {e \in uvideos : e[1] = viewing[s]}]]
HandleProfileUpdate(s, newBio) ==
    /\ Turn(s)
    /\ page[s] = "profile"
    /\ shown[s].id # NoUser /\ viewing[s] # NoPage
    /\ IsOwner(s, viewing[s])
    /\ perror' = [perror EXCEPT ![s] = "none"]
    /\ profile' = [profile EXCEPT ![viewing[s]] = [exists |-> FALSE, followers |-> 0, following |-> 0]]
    /\ pname' = [pname EXCEPT ![viewing[s]] =
                    [name |-> NoName, email |-> NoEmail,
                     node |-> [exists |-> TRUE, username |-> shown[s].username, bio |-> newBio,
                               followers |-> shown[s].followers,
                               following |-> shown[s].following]]]
    /\ uvideos' = {e \in uvideos : e[1] # viewing[s]}
    /\ pdone' = [pdone EXCEPT ![s] = EditOp(s)]
    /\ UNCHANGED <<user, page, serial, nops, followTab, likeVars, commentVars>>
    /\ UNCHANGED <<userFollowing, userFollowers, follows, usersFollowing, usersFollowers>>
    /\ UNCHANGED <<coll, assets, hvideos, herror, qvideos, tlists, tquery, results, pvideos,
                   vpc, vcur, fdone, seedVars>>
    /\ UNCHANGED <<email, shown, ppc, psnap>>

\* ------------------------------------------------------------------ feeds
Min(a, b) == IF a <= b THEN a ELSE b
\* the home page shows at most this many videos; limit defaults to it
PageSize == 10
\* each trending list shows at most this many
TopSize == 3

\* Array.prototype.slice(0, n)
Take(seq, n) == SubSeq(seq, 1, Min(n, Len(seq)))

\* Array.prototype.sort with the comparator b.key - a.key: descending by key,
\* equal keys keep their order (the sort is stable); keys[i] is the key of seq[i]
RECURSIVE DescOrder(_, _)
DescOrder(keys, idxs) ==
    IF idxs = {} THEN <<>>
    ELSE LET m == CHOOSE i \in idxs :
                    \A j \in idxs : keys[i] > keys[j] \/ (keys[i] = keys[j] /\ i <= j)
         IN <<m>> \o DescOrder(keys, idxs \ {m})
SortDesc(seq, keys) ==
    LET order == DescOrder(keys, DOMAIN seq)
    IN [k \in 1..Len(seq) |-> seq[order[k]]]
ByCreatedAt(seq) == SortDesc(seq, [i \in DOMAIN seq |-> seq[i].createdAt])

NoFeed == [op |-> "none", limit |-> 0, failed |-> FALSE, term |-> <<>>]
FeedOp(kind, l, f, t) == [op |-> kind, limit |-> l, failed |-> f, term |-> t]
RefreshOp(s, f) == [op |-> "refresh", limit |-> 0, failed |-> f, term |-> <<>>, tab |-> s]
NoDelete == [id |-> 0, hosted |-> FALSE]
NoLists == [mostLiked |-> <<>>, mostCommented |-> <<>>, recent |-> <<>>]

FeedInitTabs ==
    /\ hvideos = <<>>
    /\ herror = FALSE
    /\ qvideos = <<>>
    /\ tlists = NoLists
    /\ tquery = NoLists
    /\ results = <<>>
    /\ pvideos = [s \in Sessions |-> <<>>]
    /\ vpc = [s \in Sessions |-> "idle"]
    /\ vcur = [s \in Sessions |-> NoDelete]
    /\ fdone = NoFeed
\* no video uploaded
FeedInitStore ==
    /\ coll = <<>>
    /\ uvideos = {}
    /\ assets = {}

\* useVideos(limit) queryFn: every record in key order, then slice(0, limit)
UseVideos(c, limit) == Take(c, limit)

\* home page fetchVideos: sort by createdAt descending, then slice(0, pageSize)
HomeFetchVideos(c) == Take(ByCreatedAt(c), PageSize)

\* the useVideos query runs (mount or refetch) with the given limit
UseVideosRun(limit) ==
    /\ qvideos' = UseVideos(coll, limit)
    /\ fdone' = FeedOp("useVideos", limit, FALSE, <<>>)
    /\ UNCHANGED notFeed
    /\ UNCHANGED <<feedStore, hvideos, herror, tlists, tquery, results, pvideos, vpc, vcur>>

\* the home page, first revision, runs fetchVideos; a failed read leaves the
\* videos state as it was and sets the error
HomeFetchVideosRun(fail) ==
    /\ hvideos' = IF fail THEN hvideos ELSE HomeFetchVideos(coll)
    /\ herror' = fail
    /\ fdone' = FeedOp("homeFetch", PageSize, fail, <<>>)
    /\ UNCHANGED notFeed
    /\ UNCHANGED <<feedStore, qvideos, tlists, tquery, results, pvideos, vpc, vcur>>

\* ---- profile page: refreshVideos and handleDeleteVideo
\* refreshVideos; a failed read leaves the videos state as it was
RefreshVideos(s, fail) ==
    /\ Turn(s)
    /\ page[s] = "profile"
    /\ viewing[s] # NoPage
    /\ pvideos' = [pvideos EXCEPT ![s] = IF fail THEN @ ELSE ProfileVideos(coll, viewing[s])]
    /\ fdone' = RefreshOp(s, fail)
    /\ UNCHANGED notFeed
    /\ UNCHANGED <<feedStore, hvideos, herror, qvideos, tlists, tquery, results, vpc, vcur>>

\* if (!user || user.uid !== router.query.id) return
MayDeleteAlways(s) == TRUE
MayDelete(s) == user[s] # NoUser /\ user[s] = viewing[s]

WithoutVideo(c, id) == SelectSeq(c, LAMBDA v : v.id # id)
DeleteOp(s, v, went) ==
    [op |-> "delete", limit |-> 0, failed |-> FALSE, term |-> <<>>,
     tab |-> s, actor |-> user[s], viewed |-> viewing[s], id |-> v.id, owner |-> v.userId,
     went |-> went, assetFailed |-> FALSE,
     pre |-> IF went THEN <<>> ELSE <<coll, uvideos, assets>>]

\* handleDeleteVideo called for a listed video while the guard fails
DeleteVideoRefused(s, i) ==
    /\ Turn(s)
    /\ page[s] = "profile"
    /\ i \in DOMAIN pvideos[s]
    /\ ~MayDelete(s)
    /\ fdone' = DeleteOp(s, pvideos[s][i], FALSE)
    /\ UNCHANGED notFeed
    /\ UNCHANGED <<feedStore, hvideos, herror, qvideos, tlists, tquery, results, pvideos, vpc, vcur>>

\* handleDeleteVideo up to its first await: remove(videos/{videoId})
DeleteVideoStart(s, i) ==
    /\ Turn(s)
    /\ nops < MaxDeletes
    /\ nops' = nops + 1
    /\ page[s] = "profile"
    /\ i \in DOMAIN pvideos[s]
    /\ MayDelete(s)
    /\ coll' = WithoutVideo(coll, pvideos[s][i].id)
    /\ vcur' = [vcur EXCEPT ![s] = DeleteOp(s, pvideos[s][i], TRUE)]
    /\ vpc' = [vpc EXCEPT ![s] = "index"]
    /\ UNCHANGED notFeedOp
    /\ UNCHANGED <<uvideos, assets, hvideos, herror, qvideos, tlists, tquery, results, pvideos, fdone>>

\* remove(users/{user.uid}/videos/{videoId})
DeleteVideoIndex(s) ==
    /\ vpc[s] = "index"
    /\ uvideos' = uvideos \ {<<user[s], vcur[s].id>>}
    /\ vpc' = [vpc EXCEPT ![s] = "asset"]
    /\ UNCHANGED notFeed
    /\ UNCHANGED <<coll, assets, hvideos, herror, qvideos, tlists, tquery, results, pvideos, vcur, fdone>>

\* deleteObject for a file in Firebase Storage, which may fail and is caught;
\* then setVideos(prev => prev.filter(v => v.id !== videoId))
DeleteVideoAsset(s, fail) ==
    /\ vpc[s] = "asset"
    /\ LET hosted == \E i \in DOMAIN pvideos[s] :
                        pvideos[s][i].id = vcur[s].id /\ pvideos[s][i].hosted
       IN /\ fail => hosted
          /\ assets' = IF hosted /\ ~fail THEN assets \ {vcur[s].id} ELSE assets
          /\ fdone' = [vcur[s] EXCEPT !.assetFailed = fail]
    /\ pvideos' = [pvideos EXCEPT ![s] = WithoutVideo(@, vcur[s].id)]
    /\ vpc' = [vpc EXCEPT ![s] = "idle"]
    /\ vcur' = [vcur EXCEPT ![s] = NoDelete]
    /\ UNCHANGED notFeed
    /\ UNCHANGED <<coll, uvideos, hvideos, herror, qvideos, tlists, tquery, results>>

\* ---- trending page and useTrendingVideos
LikesIn(c) == [j \in DOMAIN c |-> OrZero(c[j].likes)]
CommentsIn(c) == [j \in DOMAIN c |-> OrZero(c[j].comments)]
TopLists(c) ==
    [mostLiked |-> Take(SortDesc(c, LikesIn(c)), TopSize),
     mostCommented |-> Take(SortDesc(c, CommentsIn(c)), TopSize),
     recent |-> Take(ByCreatedAt(c), TopSize)]
\* the entry the trending page builds: likes: videoData.likes || 0, ...
Listed(v) == [v EXCEPT !.likes = OrZero(@), !.comments = OrZero(@)]
ListedAll(c) == [j \in DOMAIN c |-> Listed(c[j])]

\* useTrendingVideos queryFn; an empty collection gives three empty lists
UseTrendingRun ==
    /\ tquery' = TopLists(coll)
    /\ fdone' = FeedOp("useTrending", TopSize, FALSE, <<>>)
    /\ UNCHANGED notFeed
    /\ UNCHANGED <<feedStore, hvideos, herror, qvideos, tlists, results, pvideos, vpc, vcur>>

\* trending page fetchVideos: returns before any setState when the snapshot
\* does not exist or a read fails
TrendingFetchRun(fail) ==
    /\ tlists' = IF fail \/ coll = <<>> THEN tlists ELSE TopLists(ListedAll(coll))
    /\ fdone' = FeedOp("trendingFetch", TopSize, fail, <<>>)
    /\ UNCHANGED notFeed
    /\ UNCHANGED <<feedStore, hvideos, herror, qvideos, tquery, results, pvideos, vpc, vcur>>

\* ---- search bar
TitleChars == {"a", "A", "b"}
TermChars == TitleChars \cup {" "}
Titles == UNION {[1..n -> TitleChars] : n \in 1..MaxTitleLen}
Terms == UNION {[1..n -> TermChars] : n \in 0..MaxTermLen}
\* String.prototype.toLowerCase
LowerChar(ch) == IF ch = "A" THEN "a" ELSE ch
ToLowerCase(t) == [i \in DOMAIN t |-> LowerChar(t[i])]
\* String.prototype.includes
Includes(t, sub) ==
    \E k \in 0..(Len(t) - Len(sub)) : SubSeq(t, k + 1, k + Len(sub)) = sub
\* the loop over Object.entries(videos): matching records in key order
Matching(c, term) ==
    SelectSeq(c, LAMBDA v : Includes(ToLowerCase(v.title), ToLowerCase(term)))

\* debouncedSearch(term): a blank term clears the results; otherwise the
\* results are set only when the snapshot exists
DebouncedSearch(term) ==
    /\ results' = IF Trim(term) = <<>> THEN <<>>
                  ELSE IF coll = <<>> THEN results
                  ELSE Matching(coll, term)
    /\ fdone' = FeedOp("search", 0, FALSE, term)
    /\ UNCHANGED notFeed
    /\ UNCHANGED <<feedStore, hvideos, herror, qvideos, tlists, tquery, pvideos, vpc, vcur>>

\* initial values of everything outside the follow, like and comment recorders
\* ------------------------------------------------------------------ seeding script
\* ---- retry(operation, retries = 3, delayMs = 2000, backoff = 2)
DefaultRetries == 3
DefaultDelayMs == 2000
DefaultBackoff == 2
DefaultArgs == [retries |-> DefaultRetries, delayMs |-> DefaultDelayMs, backoff |-> DefaultBackoff]
TooManyRequests == "auth/too-many-requests"
NetworkRequestFailed == "auth/network-request-failed"
NoCode == "undefined"
Codes == {TooManyRequests, NetworkRequestFailed, "auth/email-already-in-use", NoCode}
Values == {"v1", "v2"}
NoOutcome == [kind |-> "none"]

\* error?.code !== 'auth/too-many-requests' && error?.code !== 'auth/network-request-failed'
IsRetryableAny(c) == TRUE
IsRetryable(c) == ~(c # TooManyRequests /\ c # NetworkRequestFailed)

RetryIdle ==
    /\ rargs = DefaultArgs
    /\ retries = DefaultRetries
    /\ delayMs = DefaultDelayMs
    /\ backoff = DefaultBackoff
    /\ rpc = "idle"
    /\ rcalls = 0
    /\ rwaits = <<>>
    /\ rerrs = <<>>
    /\ rout = NoOutcome

\* return await operation(): the attempt resolves with v
RetryAttemptReturns(v) ==
    /\ rpc = "try"
    /\ rcalls' = rcalls + 1
    /\ rout' = [kind |-> "returned", value |-> v]
    /\ rpc' = "done"
    /\ UNCHANGED <<rargs, retries, delayMs, backoff, rwaits, rerrs>>
    /\ UNCHANGED <<webVars, loopVars>>

\* the attempt rejects with an error of code c: rethrown when no retries are
\* left or the code is not one of the two, else the delay starts
RetryAttemptThrows(c) ==
    /\ rpc = "try"
    /\ rcalls' = rcalls + 1
    /\ LET error == [code |-> c, attempt |-> rcalls + 1] IN
         /\ rerrs' = Append(rerrs, error)
         /\ IF retries = 0 \/ ~IsRetryable(c)
            THEN rpc' = "done" /\ rout' = [kind |-> "threw", error |-> error]
            ELSE rpc' = "delay" /\ rout' = rout
    /\ UNCHANGED <<rargs, retries, delayMs, backoff, rwaits>>
    /\ UNCHANGED <<webVars, loopVars>>

\* await delay(delayMs); return retry(operation, retries - 1, delayMs * backoff, backoff)
RetryDelayFlat ==
    /\ rpc = "delay"
    /\ rwaits' = Append(rwaits, delayMs)
    /\ retries' = retries - 1
    /\ delayMs' = delayMs
    /\ rpc' = "try"
    /\ UNCHANGED <<rargs, backoff, rcalls, rerrs, rout>>
    /\ UNCHANGED <<webVars, loopVars>>
RetryDelay ==
    /\ rpc = "delay"
    /\ rwaits' = Append(rwaits, delayMs)
    /\ retries' = retries - 1
    /\ delayMs' = delayMs * backoff
    /\ rpc' = "try"
    /\ UNCHANGED <<rargs, backoff, rcalls, rerrs, rout>>
    /\ UNCHANGED <<webVars, loopVars>>

\* ---- createUserWithProfile: the follow loop
FollowCap == 10
Targets == 1..MaxTargets

LoopIdle ==
    /\ sfollows = {}
    /\ sfollowing = 0
    /\ sfollowers = [t \in Targets |-> 0]
    /\ sbase = [t \in Targets |-> 0]
    /\ usersToFollow = <<>>
    /\ numToFollow = 0
    /\ spc = "idle"
    /\ ssnap = 0
SeedIdle == RetryIdle /\ LoopIdle

\* await set(ref(db, `follows/${uid}/${targetUid}`), true)
SeedSetEdge ==
    /\ spc = "edge"
    /\ sfollows' = sfollows \cup {Head(usersToFollow)}
    /\ spc' = "following"
    /\ UNCHANGED <<sfollowing, sfollowers, sbase, usersToFollow, numToFollow, ssnap>>
    /\ UNCHANGED <<webVars, retryVars>>

\* await set(ref(db, `users/${uid}/profile/following`), numToFollow)
SeedSetFollowing ==
    /\ spc = "following"
    /\ sfollowing' = numToFollow
    /\ spc' = "get"
    /\ UNCHANGED <<sfollows, sfollowers, sbase, usersToFollow, numToFollow, ssnap>>
    /\ UNCHANGED <<webVars, retryVars>>

\* currentFollowers = (await get(targetUserRef)).val() || 0
SeedGetFollowers ==
    /\ spc = "get"
    /\ ssnap' = sfollowers[Head(usersToFollow)]
    /\ spc' = "set"
    /\ UNCHANGED <<sfollows, sfollowing, sfollowers, sbase, usersToFollow, numToFollow>>
    /\ UNCHANGED <<webVars, retryVars>>

\* await set(targetUserRef, currentFollowers + 1); the loop moves on
SeedSetFollowers ==
    /\ spc = "set"
    /\ sfollowers' = [sfollowers EXCEPT ![Head(usersToFollow)] = ssnap + 1]
    /\ usersToFollow' = Tail(usersToFollow)
    /\ spc' = IF Tail(usersToFollow) = <<>> THEN "done" ELSE "edge"
    /\ UNCHANGED <<sfollows, sfollowing, sbase, numToFollow, ssnap>>
    /\ UNCHANGED <<webVars, retryVars>>

\* a store call of the loop rejects: the catch of createUserWithProfile
\* logs and returns null
SeedCallRejects ==
    /\ spc \in {"edge", "following", "get", "set"}
    /\ spc' = "failed"
    /\ UNCHANGED <<sfollows, sfollowing, sfollowers, sbase, usersToFollow, numToFollow, ssnap>>
    /\ UNCHANGED <<webVars, retryVars>>

LaterInit ==
    /\ LoadInitTabs
    /\ LoadInitStore
    /\ FeedInitTabs
    /\ FeedInitStore
    /\ SeedIdle

\* ---- the like recorder as a system
LikeEnv ==
    /\ nops = 0
    /\ profile = [u \in Users |-> [exists |-> TRUE, followers |-> 0, following |-> 0]]
    /\ userFollowing = {} /\ userFollowers = {} /\ follows = {}
    /\ usersFollowing = {} /\ usersFollowers = {}
    /\ viewing = [s \in Sessions |-> NoPage]
    /\ isFollowing = [s \in Sessions |-> FALSE]
    /\ fpc = [s \in Sessions |-> "idle"]
    /\ fbranch = [s \in Sessions |-> FALSE]
    /\ fsnap = [s \in Sessions |-> NoSnap]
    /\ qFollowing = [s \in Sessions |-> {}]
    /\ pending = [s \in Sessions |-> {}]
    /\ fpre = [s \in Sessions |-> NoPre]
    /\ lastDone = NoPre
    /\ LikeInitTabs
    /\ CommentInitTabs

\* like actions issued one at a time, from every page
LikePages == {"homeOld", "home", "trending", "discover"}
HomePages == {"homeOld", "home"}
LikeSeqInit ==
    /\ user \in [Sessions -> Users \cup {NoUser}]
    /\ page \in [Sessions -> LikePages]
    /\ serial = TRUE
    /\ LikeEnv
    /\ LaterInit

LikeNext ==
    \E s \in Sessions :
        \/ HomeLikeGet(s)
        \/ HomeLikeWrite(s)
        \/ VideosRefetch(s)
        \/ UseLikeVideoIncrement(s)
        \/ UseLikeVideoFlag(s)
        \/ TrendingLikeGet(s)
        \/ TrendingLikeIncrement(s)
        \/ TrendingLikeFlag(s)
        \/ DiscoverSync(s)
        \/ DiscoverRebind(s)
        \/ DiscoverLikeButton(s)
        \/ DiscoverLikeKey(s)
SpecLikeSeq == LikeSeqInit /\ [][LikeNext]_vars

\* the home page alone (both revisions), one action at a time
LikeHomeNext ==
    \E s \in Sessions :
        \/ HomeLikeGet(s)
        \/ HomeLikeWrite(s)
        \/ VideosRefetch(s)
        \/ UseLikeVideoIncrement(s)
        \/ UseLikeVideoFlag(s)
LikeHomeInit ==
    /\ user \in [Sessions -> Users \cup {NoUser}]
    /\ page \in [Sessions -> HomePages]
    /\ serial = TRUE
    /\ LikeEnv
    /\ LaterInit
SpecLikeHome == LikeHomeInit /\ [][LikeHomeNext]_vars

\* two signed-in users, one like action each, interleaved at every await
LikeRaceInit ==
    /\ user \in {f \in [Sessions -> Users] : \A a, b \in Sessions : a # b => f[a] # f[b]}
    /\ page \in [Sessions -> HomePages]
    /\ serial = FALSE
    /\ LikeEnv
    /\ LaterInit
SpecLikeRace == LikeRaceInit /\ [][LikeHomeNext]_vars

\* ---- the comment recorder as a system
ModalNext ==
    \E s \in Sessions :
        \/ ModalOpen(s)
        \/ \E t \in Texts : ModalSubmitComment(s, t)
        \/ ModalQuickComment(s)
        \/ \E i \in 1..MaxComments : ModalDeleteComment(s, i)
        \/ ModalGetVideo(s)
        \/ ModalSetVideo(s)
        \/ ModalFetch(s)
        \/ \E i \in 1..MaxComments, t \in Texts : ModalReply(s, i, t)
        \/ \E i \in 1..MaxComments, r \in [id : 1..MaxComments, userId : Users] :
               ModalDeleteReply(s, i, r)
        \/ ModalGetComment(s)
        \/ ModalSetComment(s)
HomeCommentNext ==
    \E s \in Sessions :
        \/ HomeFetchComments(s)
        \/ \E t \in Texts : HomeComment(s, t)
        \/ HomeCommentIndex(s)
        \/ HomeCommentCount(s)
DiscoverCommentNext ==
    \E s \in Sessions :
        \/ \E t \in Texts : DiscoverCommentSubmit(s, t)
        \/ DiscoverCommentsSync(s)

\* the first tab is signed in; the second is the same user, another user,
\* or signed out
CommentTabs == {f \in [Sessions -> Users \cup {NoUser}] : f["s1"] = "u1"}

\* the modal and the discover page, one action at a time
CountPages == {"modal", "discover"}
CommentCountInit ==
    /\ user \in CommentTabs
    /\ page \in [Sessions -> CountPages]
    /\ serial = TRUE
    /\ LikeEnv
    /\ LaterInit
CommentCountNext == ModalNext \/ DiscoverCommentNext
SpecCommentCount == CommentCountInit /\ [][CommentCountNext]_vars

\* the modal and the home page, one action at a time
IndexPages == {"modal", "homeOld"}
CommentIndexInit ==
    /\ user \in CommentTabs
    /\ page \in [Sessions -> IndexPages]
    /\ serial = TRUE
    /\ LikeEnv
    /\ LaterInit
CommentIndexNext == ModalNext \/ HomeCommentNext
SpecCommentIndex == CommentIndexInit /\ [][CommentIndexNext]_vars

\* comment submissions and deletions of the modal and the home page, one
\* action at a time
SubmitNext ==
    \/ HomeCommentNext
    \/ \E s \in Sessions :
        \/ ModalOpen(s)
        \/ \E t \in Texts : ModalSubmitComment(s, t)
        \/ ModalQuickComment(s)
        \/ \E i \in 1..MaxComments : ModalDeleteComment(s, i)
        \/ ModalGetVideo(s)
        \/ ModalSetVideo(s)
        \/ ModalFetch(s)
SpecSubmit == CommentIndexInit /\ [][SubmitNext]_vars

\* ---- likes of a video and of a comment, as a system
\* nobody follows anybody and no profile page is open
FollowIdle ==
    /\ profile = [u \in Users |-> [exists |-> TRUE, followers |-> 0, following |-> 0]]
    /\ userFollowing = {} /\ userFollowers = {} /\ follows = {}
    /\ usersFollowing = {} /\ usersFollowers = {}
    /\ viewing = [s \in Sessions |-> NoPage]
    /\ isFollowing = [s \in Sessions |-> FALSE]
    /\ fpc = [s \in Sessions |-> "idle"]
    /\ fbranch = [s \in Sessions |-> FALSE]
    /\ fsnap = [s \in Sessions |-> NoSnap]
    /\ qFollowing = [s \in Sessions |-> {}]
    /\ pending = [s \in Sessions |-> {}]
    /\ fpre = [s \in Sessions |-> NoPre]
    /\ lastDone = NoPre
\* the video has one comment of u1, liked so far by the users in by
OneComment(by) ==
    /\ vcomments = [k \in {1} |->
                       [NewComment("u1", QuickComment) EXCEPT
                           !.likes = IF by = {} THEN Missing ELSE Cardinality(by),
                           !.likedBy = by]]
    /\ userComments = {}
    /\ nextId = 1
TwoStepPages == {"home", "trending", "modal"}
LikeOrderInit ==
    /\ user \in [Sessions -> Users \cup {NoUser}]
    /\ page \in [Sessions -> TwoStepPages]
    /\ serial = TRUE
    /\ nops = 0
    /\ FollowIdle
    /\ LikeInitTabs
    /\ CommentInitLocal
    /\ \E by \in SUBSET Users : OneComment(by)
    /\ LaterInit
CommentLikeNext ==
    \E s \in Sessions :
        \/ ModalOpen(s)
        \/ \E i \in 1..MaxComments : ModalLikeGet(s, i)
        \/ ModalLikeFlag(s)
        \/ ModalLikeCount(s)
LikeOrderNext ==
    \/ CommentLikeNext
    \/ \E s \in Sessions :
        \/ VideosRefetch(s)
        \/ UseLikeVideoIncrement(s)
        \/ UseLikeVideoFlag(s)
        \/ TrendingLikeGet(s)
        \/ TrendingLikeIncrement(s)
        \/ TrendingLikeFlag(s)
SpecLikeOrder == LikeOrderInit /\ [][LikeOrderNext]_vars

\* ---- replies of the CommentModal, one action at a time
MaxReplies == 2
ReplyIds == 1..(MaxComments + MaxReplies)
\* a comment of u1 with k replies of u1 under it, as k completed handleReply
\* calls leave it
Thread(k) ==
    /\ vcomments = [c \in {1} |->
                       [NewComment("u1", QuickComment) EXCEPT
                           !.replies = {[id |-> 1 + j, userId |-> "u1"] : j \in 1..k},
                           !.replyCount = k,
                           !.hasCount = k > 0]]
    /\ userComments = {}
    /\ nextId = 1 + k
RepliesInit ==
    /\ user \in CommentTabs
    /\ page = [s \in Sessions |-> "modal"]
    /\ serial = TRUE
    /\ nops = 0
    /\ FollowIdle
    /\ LikeInitTabs
    /\ CommentInitLocal
    /\ \E k \in 0..MaxReplies : Thread(k)
    /\ LaterInit
RepliesNext ==
    \E s \in Sessions :
        \/ ModalOpen(s)
        \/ \E i \in 1..MaxComments, t \in Texts : ModalReply(s, i, t)
        \/ \E i \in 1..MaxComments, r \in [id : ReplyIds, userId : Users] :
               ModalDeleteReply(s, i, r)
        \/ ModalGetComment(s)
        \/ ModalSetComment(s)
        \/ ModalFetch(s)
SpecReplies == RepliesInit /\ [][RepliesNext]_vars

\* ---- a comment in the CommentModal of one tab while the other tab, on the
\* home or the trending page, likes or plays the same video; the handlers
\* interleave at every await
VideoRaceInit ==
    /\ user \in {f \in [Sessions -> Users] : f["s1"] = "u1"}
    /\ page \in {f \in [Sessions -> {"modal", "home", "trending"}] :
                    f["s1"] = "modal" /\ f["s2"] # "modal"}
    /\ serial = FALSE
    /\ nops = 0
    /\ FollowIdle
    /\ LikeInitLocal
    /\ \E by \in SUBSET Users :
          video = [likes |-> Cardinality(by), likedBy |-> by, comments |-> 1, views |-> 0]
    /\ CommentInitLocal
    /\ OneComment({})
    /\ LaterInit
VideoRaceNext ==
    \E s \in Sessions :
        \/ ModalOpen(s)
        \/ \E t \in Texts : ModalSubmitComment(s, t)
        \/ \E i \in 1..MaxComments : ModalDeleteComment(s, i)
        \/ ModalGetVideo(s)
        \/ ModalSetVideo(s)
        \/ ModalFetch(s)
        \/ VideosRefetch(s)
        \/ UseLikeVideoIncrement(s)
        \/ UseLikeVideoFlag(s)
        \/ TrendingLikeGet(s)
        \/ TrendingLikeIncrement(s)
        \/ TrendingLikeFlag(s)
        \/ HandleVideoPlay(s)
SpecVideoRace == VideoRaceInit /\ [][VideoRaceNext]_vars

\* ---- two tabs with the CommentModal of the same video open: replies and
\* comment likes whose handlers interleave at every await
ReplyRaceInit ==
    /\ user \in {f \in [Sessions -> Users] : f["s1"] = "u1"}
    /\ page = [s \in Sessions |-> "modal"]
    /\ serial = FALSE
    /\ nops = 0
    /\ FollowIdle
    /\ LikeInitTabs
    /\ CommentInitLocal
    /\ \E k \in 0..MaxReplies : Thread(k)
    /\ LaterInit
ReplyRaceNext == RepliesNext \/ CommentLikeNext
SpecReplyRace == ReplyRaceInit /\ [][ReplyRaceNext]_vars

\* ---- two users, each with the CommentModal open, like the one comment,
\* which nobody has liked; the handlers interleave at every await
CommentLikeRaceInit ==
    /\ user = [s \in Sessions |-> IF s = "s1" THEN "u1" ELSE "u2"]
    /\ page = [s \in Sessions |-> "modal"]
    /\ serial = FALSE
    /\ nops = 0
    /\ FollowIdle
    /\ LikeInitTabs
    /\ CommentInitLocal
    /\ OneComment({})
    /\ LaterInit
SpecCommentLikeRace == CommentLikeRaceInit /\ [][CommentLikeNext]_vars

\* ---- the home page, the trending page and the CommentModal, opened signed
\* in or signed out: likes, comment likes and plays, one action at a time
SignedOutNext ==
    \/ LikeOrderNext
    \/ \E s \in Sessions : HandleVideoPlay(s)
SpecSignedOut == LikeOrderInit /\ [][SignedOutNext]_vars

\* ---- handleFollow and useLikeVideo with store calls that may reject
PartialPages == {"profile", "home"}
PartialInit ==
    /\ user \in [Sessions -> Users \cup {NoUser}]
    /\ page \in [Sessions -> PartialPages]
    /\ serial = TRUE
    /\ nops = 0
    /\ FollowIdle
    /\ LikeInitTabs
    /\ CommentInitTabs
    /\ LaterInit
PartialNext ==
    \E s \in Sessions :
        \/ \E p \in Users : LoadProfile(s, p) /\ page[s] = "profile"
        \/ HandleFollowStart(s)
        \/ HandleFollowFollowersRef(s)
        \/ HandleFollowGetTarget(s)
        \/ HandleFollowSetTarget(s)
        \/ HandleFollowGetOwn(s)
        \/ HandleFollowSetOwn(s)
        \/ HandleFollowRejects(s)
        \/ VideosRefetch(s)
        \/ UseLikeVideoIncrement(s)
        \/ UseLikeVideoFlag(s)
        \/ UseLikeVideoFlagRejects(s)
SpecPartial == PartialInit /\ [][PartialNext]_vars

\* ---- the profile page load as a system
\* an account either has the record written at sign-up or has none; the tabs
\* load profiles independently of each other
SignedUp(e) == [name |-> SplitFirst(e), email |-> e, node |-> NoNode]
LoadInit ==
    /\ user \in [Sessions -> Users \cup {NoUser}]
    /\ page = [s \in Sessions |-> "profile"]
    /\ serial = FALSE
    /\ nops = 0
    /\ email \in [Users -> Emails]
    /\ \E has \in SUBSET Users :
         /\ profile = [u \in Users |-> [exists |-> u \in has, followers |-> 0, following |-> 0]]
         /\ pname = [u \in Users |-> IF u \in has THEN SignedUp(email[u])
                                     ELSE [name |-> NoName, email |-> NoEmail, node |-> NoNode]]
    /\ userFollowing = {} /\ userFollowers = {} /\ follows = {}
    /\ usersFollowing = {} /\ usersFollowers = {}
    /\ viewing = [s \in Sessions |-> NoPage]
    /\ isFollowing = [s \in Sessions |-> FALSE]
    /\ fpc = [s \in Sessions |-> "idle"]
    /\ fbranch = [s \in Sessions |-> FALSE]
    /\ fsnap = [s \in Sessions |-> NoSnap]
    /\ qFollowing = [s \in Sessions |-> {}]
    /\ pending = [s \in Sessions |-> {}]
    /\ fpre = [s \in Sessions |-> NoPre]
    /\ lastDone = NoPre
    /\ LikeInitTabs
    /\ CommentInitTabs
    /\ SeedIdle
    /\ LoadInitTabs
    /\ FeedInitTabs
    /\ FeedInitStore
LoadNext ==
    \E s \in Sessions :
        \/ \E p \in Users : FetchProfileGet(s, p)
        \/ FetchProfileCreate(s)
        \/ FetchProfileShowDefault(s)
        \/ FetchProfileNotFound(s)
        \/ FetchProfileFound(s)
SpecLoad == LoadInit /\ [][LoadNext]_vars

\* ---- the feeds as a system
\* a video as uploaded: the record carries its own key as id
VideoRec(id, u, at, l, c, t) ==
    [id |-> id, userId |-> u, createdAt |-> at, likes |-> l, comments |-> c, title |-> t,
     hosted |-> TRUE]
DefaultTitle == <<"a">>
\* collections whose records differ in createdAt only
RecentCollections(n) ==
    {[i \in 1..n |-> VideoRec(i, "u1", at[i], 0, 0, DefaultTitle)] : at \in [1..n -> 1..MaxStamp]}
Indexed(c) ==
    /\ uvideos = {<<c[i].userId, c[i].id>> : i \in DOMAIN c}
    /\ assets = {c[i].id : i \in {j \in DOMAIN c : c[j].hosted}}
\* the first tab shows the profile page of u1 with its videos loaded, the
\* second the home page; nothing else is going on
WebTabs ==
    /\ page = [s \in Sessions |-> IF s = "s1" THEN "profile" ELSE "home"]
    /\ serial = TRUE
    /\ nops = 0
    /\ profile = [u \in Users |-> [exists |-> TRUE, followers |-> 0, following |-> 0]]
    /\ userFollowing = {} /\ userFollowers = {} /\ follows = {}
    /\ usersFollowing = {} /\ usersFollowers = {}
    /\ isFollowing = [s \in Sessions |-> FALSE]
    /\ fpc = [s \in Sessions |-> "idle"]
    /\ fbranch = [s \in Sessions |-> FALSE]
    /\ fsnap = [s \in Sessions |-> NoSnap]
    /\ qFollowing = [s \in Sessions |-> {}]
    /\ pending = [s \in Sessions |-> {}]
    /\ fpre = [s \in Sessions |-> NoPre]
    /\ lastDone = NoPre
    /\ LikeInitTabs
    /\ CommentInitTabs
    /\ LoadInitTabs
    /\ LoadInitStore
    /\ hvideos = <<>>
    /\ herror = FALSE
    /\ qvideos = <<>>
    /\ tlists = NoLists
    /\ tquery = NoLists
    /\ results = <<>>
    /\ vpc = [s \in Sessions |-> "idle"]
    /\ vcur = [s \in Sessions |-> NoDelete]
    /\ fdone = NoFeed
FeedTabs == WebTabs /\ SeedIdle
\* the profile tab has loaded the videos of the profile it shows
Loaded ==
    pvideos = [s \in Sessions |-> IF viewing[s] = NoPage THEN <<>>
                                  ELSE ProfileVideos(coll, viewing[s])]
FeedBase ==
    /\ FeedTabs
    /\ user = [s \in Sessions |-> "u1"]
    /\ viewing = [s \in Sessions |-> IF s = "s1" THEN "u1" ELSE NoPage]
DeleteNext ==
    \E s \in Sessions :
        \/ \E i \in 1..MaxVideos : DeleteVideoStart(s, i)
        \/ DeleteVideoIndex(s)
        \/ \E f \in BOOLEAN : DeleteVideoAsset(s, f)

FeedRecentInit ==
    /\ FeedBase
    /\ \E n \in 0..MaxVideos : coll \in RecentCollections(n)
    /\ Indexed(coll)
    /\ Loaded
Limits == (1..MaxLimit) \cup {PageSize}
FeedNext ==
    \/ \E l \in Limits : UseVideosRun(l)
    \/ \E f \in BOOLEAN : HomeFetchVideosRun(f)
SpecFeedRecent == FeedRecentInit /\ [][FeedNext]_vars

\* the three page assemblies with reads that may fail
FeedFailNext ==
    \/ \E f \in BOOLEAN : HomeFetchVideosRun(f)
    \/ \E f \in BOOLEAN : TrendingFetchRun(f)
    \/ \E s \in Sessions, f \in BOOLEAN : RefreshVideos(s, f)
SpecFeedFail == FeedRecentInit /\ [][FeedFailNext]_vars

\* collections whose records differ in likes, comments and createdAt
CountsOrNone == (0..MaxCount) \cup {Missing}
TopCollections(n) ==
    {[i \in 1..n |-> VideoRec(i, "u1", at[i], k[i], k[n + 1 - i], DefaultTitle)] :
        k \in [1..n -> CountsOrNone], at \in [1..n -> 1..2]}
FeedTopInit ==
    /\ FeedBase
    /\ \E n \in 0..MaxVideos : coll \in TopCollections(n)
    /\ Indexed(coll)
    /\ Loaded
FeedTopNext ==
    \/ UseTrendingRun
    \/ \E f \in BOOLEAN : TrendingFetchRun(f)
    \/ DeleteNext
SpecFeedTop == FeedTopInit /\ [][FeedTopNext]_vars

\* collections whose records differ in title only
SearchCollections(n) ==
    {[i \in 1..n |-> VideoRec(i, "u1", i, 0, 0, t[i])] : t \in [1..n -> Titles]}
SearchInit ==
    /\ FeedBase
    /\ \E n \in 0..MaxSearchVideos : coll \in SearchCollections(n)
    /\ Indexed(coll)
    /\ Loaded
SearchNext ==
    \/ \E t \in Terms : DebouncedSearch(t)
    \/ DeleteNext
SpecSearch == SearchInit /\ [][SearchNext]_vars

\* the profile page of any account, opened signed out, by its owner or by
\* another account; uploaded videos have a stored file, seeded ones do not
DeleteCollections(n) ==
    {[i \in 1..n |-> [VideoRec(i, o[i], 1, 0, 0, DefaultTitle) EXCEPT !.hosted = h[i]]] :
        o \in [1..n -> Users], h \in [1..n -> BOOLEAN]}
DeleteInit ==
    /\ FeedTabs
    /\ user \in [Sessions -> Users \cup {NoUser}]
    /\ \E u \in Users : viewing = [s \in Sessions |-> IF s = "s1" THEN u ELSE NoPage]
    /\ \E n \in 0..MaxVideos : coll \in DeleteCollections(n)
    /\ Indexed(coll)
    /\ Loaded
DeletePageNext ==
    \/ DeleteNext
    \/ \E s \in Sessions, i \in 1..MaxVideos : DeleteVideoRefused(s, i)
    \/ \E s \in Sessions, f \in BOOLEAN : RefreshVideos(s, f)
SpecDelete == DeleteInit /\ [][DeletePageNext]_vars

\* ---- the profile page with its edit form
Bios == {<<>>, <<"b">>}
EditInit ==
    /\ user \in [Sessions -> Users \cup {NoUser}]
    /\ page = [s \in Sessions |-> "profile"]
    /\ serial = FALSE
    /\ nops = 0
    /\ email = [u \in Users |-> <<"a", "@", "a">>]
    /\ \E has \in SUBSET Users, n \in [Users -> 0..MaxCount] :
         /\ profile = [u \in Users |-> [exists |-> u \in has,
                                        followers |-> IF u \in has THEN n[u] ELSE 0,
                                        following |-> 0]]
         /\ pname = [u \in Users |-> IF u \in has THEN SignedUp(email[u])
                                     ELSE [name |-> NoName, email |-> NoEmail, node |-> NoNode]]
    /\ userFollowing = {} /\ userFollowers = {} /\ follows = {}
    /\ usersFollowing = {} /\ usersFollowers = {}
    /\ viewing = [s \in Sessions |-> NoPage]
    /\ isFollowing = [s \in Sessions |-> FALSE]
    /\ fpc = [s \in Sessions |-> "idle"]
    /\ fbranch = [s \in Sessions |-> FALSE]
    /\ fsnap = [s \in Sessions |-> NoSnap]
    /\ qFollowing = [s \in Sessions |-> {}]
    /\ pending = [s \in Sessions |-> {}]
    /\ fpre = [s \in Sessions |-> NoPre]
    /\ lastDone = NoPre
    /\ LikeInitTabs
    /\ CommentInitTabs
    /\ SeedIdle
    /\ LoadInitTabs
    /\ FeedInitTabs
    /\ \E k \in 0..MaxCount : coll \in DeleteCollections(k)
    /\ Indexed(coll)
EditNext ==
    \/ LoadNext
    \/ \E s \in Sessions, b \in Bios : HandleProfileUpdate(s, b)
SpecEdit == EditInit /\ [][EditNext]_vars

\* ---- the seeding script as a system: the web application is not in use
SeedWeb ==
    /\ WebTabs
    /\ user = [s \in Sessions |-> NoUser]
    /\ viewing = [s \in Sessions |-> NoPage]
    /\ FeedInitStore
    /\ pvideos = [s \in Sessions |-> <<>>]

\* one call of retry with the default or other arguments; every invocation
\* of operation returns or throws
ArgChoices == [retries : 0..DefaultRetries, delayMs : {1000, DefaultDelayMs}, backoff : {1, DefaultBackoff}]
RetryInit ==
    /\ SeedWeb
    /\ LoopIdle
    /\ rargs \in ArgChoices
    /\ retries = rargs.retries
    /\ delayMs = rargs.delayMs
    /\ backoff = rargs.backoff
    /\ rpc = "try"
    /\ rcalls = 0
    /\ rwaits = <<>>
    /\ rerrs = <<>>
    /\ rout = NoOutcome
RetryNext ==
    \/ \E v \in Values : RetryAttemptReturns(v)
    \/ \E c \in Codes : RetryAttemptThrows(c)
    \/ RetryDelay
\* a settled promise resumes the awaiting function and a timer fires
SpecRetry == RetryInit /\ [][RetryNext]_vars /\ WF_vars(RetryNext)

RECURSIVE Orders(_)
\* every order in which the accounts of a set can be listed
Orders(S) ==
    IF S = {} THEN {<<>>}
    ELSE UNION {{<<t>> \o rest : rest \in Orders(S \ {t})} : t \in S}
\* shuffledUsers.slice(0, numToFollow) of an allUserIds without duplicates
SeedFollowInit ==
    /\ SeedWeb
    /\ RetryIdle
    /\ \E allUserIds \in SUBSET Targets :
         /\ numToFollow = Min(FollowCap, Cardinality(allUserIds))
         /\ \E shuffledUsers \in Orders(allUserIds) :
              usersToFollow = Take(shuffledUsers, numToFollow)
    /\ sbase \in [Targets -> 0..MaxBase]
    /\ sfollowers = sbase
    /\ sfollows = {}
    /\ sfollowing = 0
    /\ ssnap = 0
    /\ spc = IF usersToFollow = <<>> THEN "done" ELSE "edge"
SeedFollowNext ==
    \/ SeedSetEdge
    \/ SeedSetFollowing
    \/ SeedGetFollowers
    \/ SeedSetFollowers
    \/ SeedCallRejects
SpecSeedFollow == SeedFollowInit /\ [][SeedFollowNext]_vars

\* ---- the follow recorder as a system
\* every account signed up (profile record with zero counters), no edge yet;
\* each tab is signed in as some user or signed out
FollowInit ==
    /\ user \in [Sessions -> Users \cup {NoUser}]
    /\ page = [s \in Sessions |-> "profile"]
    /\ serial = TRUE
    /\ nops = 0
    /\ profile = [u \in Users |-> [exists |-> TRUE, followers |-> 0, following |-> 0]]
    /\ userFollowing = {} /\ userFollowers = {} /\ follows = {}
    /\ usersFollowing = {} /\ usersFollowers = {}
    /\ viewing = [s \in Sessions |-> NoPage]
    /\ isFollowing = [s \in Sessions |-> FALSE]
    /\ fpc = [s \in Sessions |-> "idle"]
    /\ fbranch = [s \in Sessions |-> FALSE]
    /\ fsnap = [s \in Sessions |-> NoSnap]
    /\ qFollowing = [s \in Sessions |-> {}]
    /\ pending = [s \in Sessions |-> {}]
    /\ fpre = [s \in Sessions |-> NoPre]
    /\ lastDone = NoPre
    /\ LikeInitTabs
    /\ CommentInitTabs
    /\ LaterInit

\* one action at a time: nothing starts while a handler of any tab is running
FollowNext ==
    \E s \in Sessions :
        \/ \E p \in Users : LoadProfile(s, p)
        \/ HandleFollowStart(s)
        \/ HandleFollowFollowersRef(s)
        \/ HandleFollowGetTarget(s)
        \/ HandleFollowSetTarget(s)
        \/ HandleFollowGetOwn(s)
        \/ HandleFollowSetOwn(s)
        \/ \E t \in Users : UseFollowUserStart(s, t)
        \/ \E w \in HookWrites : UseFollowUserWrite(s, w)
        \/ \E t \in Users : RefetchIsFollowing(s, t)
SpecFollowSeq == FollowInit /\ [][FollowNext]_vars

\* the profile page alone: loads and handleFollow, one action at a time
FollowPageNext ==
    \E s \in Sessions :
        \/ \E p \in Users : LoadProfile(s, p)
        \/ HandleFollowStart(s)
        \/ HandleFollowFollowersRef(s)
        \/ HandleFollowGetTarget(s)
        \/ HandleFollowSetTarget(s)
        \/ HandleFollowGetOwn(s)
        \/ HandleFollowSetOwn(s)
SpecFollowPage == FollowInit /\ [][FollowPageNext]_vars

\* two tabs of signed-in users, each on the profile page of another account,
\* press Follow once; their handlers interleave at every await
Accounts == Users \cup {"u3"}
FollowRaceInit ==
    /\ user \in [Sessions -> Users]
    /\ page = [s \in Sessions |-> "profile"]
    /\ serial = FALSE
    /\ nops = 0
    /\ profile = [u \in Accounts |-> [exists |-> TRUE, followers |-> 0, following |-> 0]]
    /\ userFollowing = {} /\ userFollowers = {} /\ follows = {}
    /\ usersFollowing = {} /\ usersFollowers = {}
    /\ viewing \in [Sessions -> Accounts]
    /\ \A s \in Sessions : viewing[s] # user[s]
    /\ isFollowing = [s \in Sessions |-> FALSE]
    /\ fpc = [s \in Sessions |-> "idle"]
    /\ fbranch = [s \in Sessions |-> FALSE]
    /\ fsnap = [s \in Sessions |-> NoSnap]
    /\ qFollowing = [s \in Sessions |-> {}]
    /\ pending = [s \in Sessions |-> {}]
    /\ fpre = [s \in Sessions |-> NoPre]
    /\ lastDone = NoPre
    /\ LikeInitTabs
    /\ CommentInitTabs
    /\ LaterInit
FollowRaceNext ==
    \E s \in Sessions :
        \/ HandleFollowStart(s) /\ ~isFollowing[s]
        \/ HandleFollowFollowersRef(s)
        \/ HandleFollowGetTarget(s)
        \/ HandleFollowSetTarget(s)
        \/ HandleFollowGetOwn(s)
        \/ HandleFollowSetOwn(s)
SpecFollowRace == FollowRaceInit /\ [][FollowRaceNext]_vars

\* ------------------------------------------------------------------ claims, follow recorder
FollowersOf(a) == {e \in userFollowers : e[2] = a}
FollowingOf(a) == {e \in userFollowing : e[1] = a}
OnlyTab(s) == \A o \in Sessions \ {s} : viewing[o] = NoPage

\* C1: after any sequence of completed handleFollow actions of the profile page,
\* run one at a time (reloads of the page in between allowed), every profile's
\* followers counter equals the number of entries under userFollowers/A and its
\* following counter the number of entries under userFollowing/A.  Stated for
\* the runs in which a single tab acts.
C1_CountersEqualIndexes ==
    (Quiet /\ \E s \in Sessions : OnlyTab(s)) =>
        \A a \in Users : /\ profile[a].followers = Cardinality(FollowersOf(a))
                         /\ profile[a].following = Cardinality(FollowingOf(a))

\* the two indexes a recorder maintains for the pair
OwnFollowing(via) == IF via = "page" THEN userFollowing ELSE usersFollowing
OwnFollowers(via) == IF via = "page" THEN userFollowers ELSE usersFollowers

CleanPre(d) ==
    /\ d.pre.exist /\ ~d.pre.anyEdge
    /\ d.pre.followers = 0 /\ d.pre.following = 0
FollowedPre(d) ==
    /\ d.pre.exist /\ d.pre.inFollowing /\ d.pre.inFollowers
    /\ d.pre.followers = 1 /\ d.pre.following = 1

\* C2: a completed follow of U2 by U1 that started with no edge and counters 0
\* leaves U1.following = 1, U2.followers = 1 and U1 in the followers index of
\* U2; a completed unfollow that started from that state leaves both counters
\* 0 and the edge absent from both indexes (handleFollow and useFollowUser,
\* each with respect to the index paths it writes).
C2_FollowThenUnfollow ==
    (Quiet /\ lastDone.op # "none") =>
        LET u == lastDone.actor
            t == lastDone.target
            e == <<lastDone.actor, lastDone.target>>
        IN /\ (lastDone.op = "follow" /\ CleanPre(lastDone)) =>
                  /\ profile[u].following = 1 /\ profile[t].followers = 1
                  /\ e \in OwnFollowers(lastDone.via) /\ e \in OwnFollowing(lastDone.via)
           /\ (lastDone.op = "unfollow" /\ FollowedPre(lastDone)) =>
                  /\ profile[u].following = 0 /\ profile[t].followers = 0
                  /\ e \notin OwnFollowers(lastDone.via) /\ e \notin OwnFollowing(lastDone.via)

\* witness of C2: an unfollow has completed right after a follow from the clean state
C2_Witness ==
    /\ Quiet /\ nops = 2
    /\ lastDone.op = "unfollow" /\ FollowedPre(lastDone)
    /\ profile[lastDone.target].followers = 0

\* C10: the followers and following counters of every profile are never negative
\* (handleFollow and useFollowUser).
C10_CountersNonNegative ==
    \A a \in Users : profile[a].followers >= 0 /\ profile[a].following >= 0

\* ------------------------------------------------------------------ claims, like recorder
LQuiet == \A s \in Sessions : lpc[s] = "idle"

\* C3: after any sequence of completed like/unlike actions on a video, issued
\* one at a time (useLikeVideo, trending handleLike, discover handleLike by
\* button or by the 'l' key), likes equals the number of ids under likedBy.
\* Stated for the runs in which a single tab acts.
C3_LikesEqualLikedBy ==
    (LQuiet /\ Cardinality(acted) <= 1) => video.likes = Cardinality(video.likedBy)

\* C4: when two distinct users have each completed one like of the same fresh
\* video, in whatever interleaving, likes = 2 and likedBy holds both ids.
C4_TwoLikersCounted ==
    (LQuiet /\ acted = Sessions) =>
        /\ video.likes = 2
        /\ video.likedBy = {user[s] : s \in Sessions}

\* C5: likes is never negative, and a completed unlike by a user who had not
\* liked the video leaves likes and likedBy as they were.
C5_NoNegativeNoPhantomUnlike ==
    /\ video.likes >= 0
    /\ (LQuiet /\ ldone.op = "unlike" /\ ldone.actor \notin ldone.pre.likedBy) =>
           video = ldone.pre


\* ------------------------------------------------------------------ claims, comments
CQuiet == \A s \in Sessions : cpc[s] = "idle"

\* C6: after any sequence of completed top-level comment creations and
\* deletions issued one at a time (modal submit, quick comment and delete,
\* discover handleCommentSubmit), videos/V.comments equals the number of
\* comment records under videoComments/V.
C6_CommentsEqualRecords ==
    CQuiet => video.comments = Cardinality(DOMAIN vcomments)

\* x is t without its leading and trailing blanks
IsTrimOf(x, t) ==
    /\ x # <<>>
    /\ x[1] # " " /\ x[Len(x)] # " "
    /\ \E i, j \in 1..Len(t) :
         /\ x = SubSeq(t, i, j)
         /\ \A k \in 1..Len(t) : (k < i \/ k > j) => t[k] = " "

\* C7: when a comment submission (U, V, T) with non-blank T has completed, a
\* fetch of V's comment list that starts afterwards returns a list that
\* contains a comment whose text is T trimmed and whose userId is U.
C7_SubmitThenFetch ==
    (CQuiet /\ cdone.op \in {"submit", "quick"}) =>
        \E i \in DOMAIN FetchComments(vcomments) :
            /\ FetchComments(vcomments)[i].id = cdone.id
            /\ FetchComments(vcomments)[i].userId = cdone.actor
            /\ IsTrimOf(FetchComments(vcomments)[i].text, cdone.text)

\* a modal submission of a text with a leading blank has completed, and the
\* list the modal refetched shows it
C7_Witness ==
    /\ CQuiet
    /\ cdone.op = "submit"
    /\ Len(cdone.text) >= 2 /\ cdone.text[1] = " "
    /\ \E s \in Sessions :
         /\ page[s] = "modal" /\ user[s] = cdone.actor
         /\ \E i \in DOMAIN clist[s] : clist[s][i].id = cdone.id

\* C8: a completed handleDeleteComment of a top-level comment that existed
\* leaves videos/V.comments at its previous value minus exactly 1; a completed
\* handleDeleteComment of a reply that existed leaves the parent's replyCount
\* at its previous value minus exactly 1.
C8_DeleteDecrementsByOne ==
    /\ (CQuiet /\ cdone.op = "delete" /\ cdone.existed)
          => video.comments = cdone.preCount - 1
    /\ (CQuiet /\ cdone.op = "deleteReply" /\ cdone.existed)
          => Stored(vcomments, cdone.parent).replyCount = cdone.preReplyCount - 1

\* C9: after a completed comment creation or deletion,
\* userComments/{author}/{id} exists iff a comment record with that id and
\* that author exists under videoComments/{video}/{id}.
C9_AuthorIndexMirrors ==
    (CQuiet /\ cdone.op \in {"submit", "quick", "delete"}) =>
        \A u \in Users, id \in 1..MaxComments :
            (<<u, id>> \in userComments) <=>
                (id \in DOMAIN vcomments /\ vcomments[id].userId = u)

\* ------------------------------------------------------------------ claims, profile load
\* n is the part of e before its '@', or 'User' when there is no email
LocalPartIs(n, e) ==
    IF e = NoEmail THEN n = DefaultName
    ELSE /\ \A i \in DOMAIN n : n[i] # "@"
         /\ Len(n) < Len(e)
         /\ SubSeq(e, 1, Len(n)) = n
         /\ e[Len(n) + 1] = "@"

\* C11: a fetchProfile that found no record at users/{id}/profile: for the
\* owner, a default profile with followers = 0, following = 0 and the email's
\* local part (or 'User') as name is stored and displayed; for anybody else
\* 'Profile not found' is reported and the run issued no store write.
C11_MissingProfile ==
    \A s \in Sessions :
        (ppc[s] = "idle" /\ pdone[s].id # NoUser /\ ~pdone[s].existed) =>
            IF user[s] # NoUser /\ user[s] = pdone[s].id
            THEN /\ profile[pdone[s].id] = [exists |-> TRUE, followers |-> 0, following |-> 0]
                 /\ LocalPartIs(pname[pdone[s].id].name, email[user[s]])
                 /\ shown[s] = [id |-> pdone[s].id, username |-> pname[pdone[s].id].name,
                                followers |-> 0, following |-> 0]
                 /\ perror[s] = "none"
            ELSE /\ perror[s] = "Profile not found"
                 /\ ~pdone[s].wrote

\* one tab got 'Profile not found' for an account whose owner, in the other
\* tab, then had the default profile created from a real email
C11_Witness ==
    \E s, t \in Sessions :
        /\ ppc[s] = "idle" /\ ppc[t] = "idle"
        /\ pdone[s].id = pdone[t].id /\ pdone[s].id # NoUser
        /\ ~pdone[s].existed /\ ~pdone[t].existed
        /\ user[s] = pdone[s].id /\ pdone[s].wrote /\ email[user[s]] # NoEmail
        /\ user[t] # pdone[t].id /\ perror[t] = "Profile not found"

\* ------------------------------------------------------------------ claims, feeds
\* where the record with this id sits in c
Pos(c, id) == CHOOSE j \in DOMAIN c : c[j].id = id
\* no video occurs twice in the list and every entry is a video of c
DrawnFrom(list, c) ==
    /\ \A i \in DOMAIN list : \E j \in DOMAIN c : list[i].id = c[j].id
    /\ \A i, j \in DOMAIN list : i # j => list[i].id # list[j].id
\* the list holds min(n, N) videos of c, the greatest by key, greatest first;
\* keys[j] is the key of c[j]
IsTop(list, c, n, keys) ==
    /\ Len(list) = Min(n, Len(c))
    /\ DrawnFrom(list, c)
    /\ \A i, j \in DOMAIN list : i < j => keys[Pos(c, list[i].id)] >= keys[Pos(c, list[j].id)]
    /\ \A j \in DOMAIN c :
         (\A i \in DOMAIN list : list[i].id # c[j].id) =>
             \A i \in DOMAIN list : keys[j] <= keys[Pos(c, list[i].id)]
CreatedAtIn(c) == [j \in DOMAIN c |-> c[j].createdAt]

\* C12: the home feed (useVideos with limit L, home page fetchVideos with page
\* size 10) returns exactly min(L, N) videos, those with the greatest
\* createdAt in the whole collection, in non-increasing createdAt order.
C12_HomeFeedNewestFirst ==
    /\ fdone.op = "useVideos" => IsTop(qvideos, coll, fdone.limit, CreatedAtIn(coll))
    /\ (fdone.op = "homeFetch" /\ ~fdone.failed) => IsTop(hvideos, coll, PageSize, CreatedAtIn(coll))

\* no handleDeleteVideo is running: the collection is the one the assembly
\* that completed last has read
FQuiet == \A s \in Sessions : vpc[s] = "idle"

\* the three lists are the top three of c by likes, by comments and by createdAt
AreTopLists(l, c) ==
    /\ IsTop(l.mostLiked, c, TopSize, LikesIn(c))
    /\ IsTop(l.mostCommented, c, TopSize, CommentsIn(c))
    /\ IsTop(l.recent, c, TopSize, CreatedAtIn(c))

\* C13: each trending list (useTrendingVideos, trending page fetchVideos) has
\* exactly min(3, N) entries drawn from the collection without duplicates, in
\* non-increasing order of likes / comments / createdAt, no excluded video
\* ranking above an included one, a missing counter counting as 0.
C13_TrendingTopThree ==
    /\ (FQuiet /\ fdone.op = "useTrending") => AreTopLists(tquery, coll)
    /\ (FQuiet /\ fdone.op = "trendingFetch" /\ ~fdone.failed) => AreTopLists(tlists, coll)

\* t occurs in the title, letter case ignored
ContainsIgnoringCase(title, t) ==
    \E k \in 0..(Len(title) - Len(t)) :
        \A i \in 1..Len(t) : LowerChar(title[k + i]) = LowerChar(t[i])
Blank(t) == \A i \in DOMAIN t : t[i] = " "

\* C14: once debouncedSearch(t) has completed for a non-blank t, the results
\* hold exactly the videos whose title contains t ignoring letter case, each
\* once, and none when nothing matches or the collection is empty; for a
\* blank t the results are empty.
C14_SearchExactMatches ==
    (FQuiet /\ fdone.op = "search") =>
        IF Blank(fdone.term) THEN results = <<>>
        ELSE /\ DrawnFrom(results, coll)
             /\ \A j \in DOMAIN coll :
                  ContainsIgnoringCase(coll[j].title, fdone.term)
                      <=> \E i \in DOMAIN results : results[i].id = coll[j].id

\* what the home page renders: the error panel replaces the feed
HomeView == IF herror THEN <<>> ELSE hvideos

\* C15: after a feed assembly whose store read failed, the feed exposed to
\* the view is the empty list, neither a partial list nor the list of an
\* earlier successful assembly.
C15_FailedReadShowsEmpty ==
    fdone.failed =>
        /\ fdone.op = "homeFetch" => HomeView = <<>>
        /\ fdone.op = "trendingFetch" => tlists = NoLists
        /\ fdone.op = "refresh" => pvideos[fdone.tab] = <<>>

\* ------------------------------------------------------------------ claims, seeding script
RetryableCodes == {"auth/too-many-requests", "auth/network-request-failed"}
DefaultWaits == <<2000, 4000, 8000>>
RetryDone == rpc = "done"
C16_Bounded ==
    rargs = [retries |-> 3, delayMs |-> 2000, backoff |-> 2] =>
        /\ rcalls <= 4
        /\ Len(rwaits) <= 3
        /\ \A i \in DOMAIN rwaits : rwaits[i] = DefaultWaits[i]
        \* the k-th retry is invocation k + 1 and follows the k-th wait
        /\ rcalls <= Len(rwaits) + 1
        /\ rpc = "try" => rcalls = Len(rwaits)
        /\ (Len(rerrs) = 4 /\ \A i \in 1..4 : rerrs[i].code \in RetryableCodes) =>
               /\ RetryDone
               /\ rout = [kind |-> "threw", error |-> rerrs[4]]

\* C16: with its default arguments retry invokes operation at most 4 times,
\* waits 2000, 4000 and 8000 ms before the first, second and third retry,
\* rethrows the error of the last attempt when all 4 fail with a retryable
\* error, and terminates when every invocation of operation terminates.
C16_RetryBoundedBackoff == []C16_Bounded /\ <>RetryDone
C16_Witness ==
    /\ rargs = DefaultArgs
    /\ rcalls = 4
    /\ rwaits = DefaultWaits
    /\ rout.kind = "threw"

C17_OnlyRetryable ==
    \* every invocation but the first follows a retryable error
    /\ \A i \in DOMAIN rerrs : i < rcalls => rerrs[i].code \in RetryableCodes
    \* any other error is rethrown at once, with no delay after it
    /\ \A i \in DOMAIN rerrs : rerrs[i].code \notin RetryableCodes =>
          /\ RetryDone
          /\ rout = [kind |-> "threw", error |-> rerrs[i]]
          /\ rcalls = i
          /\ Len(rwaits) = i - 1
    /\ (rerrs # <<>> /\ rerrs[1].code \notin RetryableCodes) => rcalls = 1 /\ rwaits = <<>>
    /\ rout.kind = "returned" => RetryDone /\ rcalls = Len(rerrs) + 1

\* C17: retry re-invokes the operation only after an error whose code is
\* 'auth/too-many-requests' or 'auth/network-request-failed'; any other error
\* is rethrown after that one attempt with no delay, and a successful attempt
\* returns its value with no further invocation.
C17_RetryOnlyTwoCodes ==
    /\ []C17_OnlyRetryable
    /\ [][rout.kind # "none" => (rcalls' = rcalls /\ rwaits' = rwaits /\ rout' = rout)]_vars
C17_Witness ==
    /\ rout.kind = "threw"
    /\ rout.error.code \notin RetryableCodes
    /\ rcalls = 1

\* C19: at every iteration boundary of the follow loop and at its completion
\* the new user's profile.following equals the number of follows edges
\* written so far, and each target's followers counter has grown by exactly
\* 1 for each edge written to it.
C19_SeedCountersMatchEdges ==
    spc \in {"edge", "done"} =>
        /\ sfollowing = Cardinality(sfollows)
        /\ \A t \in Targets : sfollowers[t] = sbase[t] + (IF t \in sfollows THEN 1 ELSE 0)

\* ------------------------------------------------------------------ claims, video deletion
StoreOfVideos == <<coll, uvideos, assets>>
OwnsViewed(s) == user[s] # NoUser /\ user[s] = viewing[s]
C18_Done ==
    (FQuiet /\ fdone.op = "delete") =>
        IF fdone.went
        THEN /\ fdone.actor # NoUser /\ fdone.actor = fdone.viewed
             /\ \A i \in DOMAIN coll : coll[i].id # fdone.id
             /\ <<fdone.actor, fdone.id>> \notin uvideos
             /\ \A i \in DOMAIN pvideos[fdone.tab] : pvideos[fdone.tab][i].id # fdone.id
        ELSE StoreOfVideos = fdone.pre

\* C18: handleDeleteVideo issues no store or storage deletion unless a user
\* is signed in whose uid is the id of the profile viewed; when it proceeds
\* videos/{videoId} and users/{uid}/videos/{videoId} are removed, and a failed
\* deletion of the stored file neither restores them nor keeps the video in
\* the displayed list.
C18_OwnerOnlyDelete ==
    /\ []C18_Done
    /\ [][StoreOfVideos' # StoreOfVideos =>
            \E s \in Sessions : OwnsViewed(s) /\ (vpc[s] # "idle" \/ vpc'[s] # "idle")]_vars
C18_Witness ==
    /\ FQuiet
    /\ fdone.op = "delete"
    /\ fdone.went
    /\ fdone.assetFailed
    /\ fdone.id \in assets

\* ------------------------------------------------------------------ claims, concurrent follows
\* two distinct users have each completed one follow of the same profile
BothFollowed ==
    /\ Quiet
    /\ user["s1"] # user["s2"]
    /\ viewing["s1"] = viewing["s2"]
    /\ isFollowing["s1"] /\ isFollowing["s2"]

\* C20: two handleFollow executions by distinct users A and B following the
\* same profile C, with no failed write, always leave two entries under
\* userFollowers/C and raise users/C/profile.followers by 1 or by 2; some
\* interleaving raises it by only 1 (a lost counter update).
C20_TwoFollowsOneOrTwo ==
    BothFollowed =>
        /\ {e \in userFollowers : e[2] = viewing["s1"]}
               = {<<user["s1"], viewing["s1"]>>, <<user["s2"], viewing["s1"]>>}
        /\ profile[viewing["s1"]].followers \in {1, 2}
C20_LostUpdate ==
    /\ BothFollowed
    /\ Cardinality({e \in userFollowers : e[2] = viewing["s1"]}) = 2
    /\ profile[viewing["s1"]].followers = 1

\* ------------------------------------------------------------------ claims, two-step likes
\* C21: in every like or unlike whose counter and flag are two store writes
\* (useLikeVideo, trending handleLike, handleLikeComment) the counter is
\* written before the flag: while the operation runs, the acting user's
\* likedBy flag never differs from its value before the operation unless
\* the counter does.
C21_CounterBeforeFlag ==
    \A s \in Sessions :
        /\ lpc[s] # "idle" =>
              ((user[s] \in video.likedBy) # (user[s] \in lpre[s].pre.likedBy)
                  => video.likes # lpre[s].pre.likes)
        /\ cpc[s] \in {"likeFlag", "likeCount"} =>
              ((user[s] \in Stored(vcomments, cpre[s].id).likedBy) # (user[s] \in cpre[s].pre.likedBy)
                  => Stored(vcomments, cpre[s].id).likes # cpre[s].pre.likes)

\* ------------------------------------------------------------------ claims, failed writes
\* the store after a handleFollow that failed at a given call: the writes
\* before that call and no other
FollowLeftPartial ==
    (Quiet /\ lastDone.op = "failed") =>
        LET e == <<lastDone.actor, lastDone.target>>
            un == lastDone.of = "unfollow"
            pre == lastDone.pre
        IN /\ (e \in userFollowing) = ~un
           /\ (e \in userFollowers) = IF lastDone.at = "followersRef" THEN pre.inFollowers ELSE ~un
           /\ profile[lastDone.target].followers =
                 IF lastDone.at \in {"getOwn", "setOwn"}
                 THEN (IF un THEN Max(0, pre.followers - 1) ELSE pre.followers + 1)
                 ELSE pre.followers
           /\ profile[lastDone.actor].following = pre.following
LikeLeftPartial ==
    (Quiet /\ ldone.op = "failed") =>
        /\ video.likes = ldone.pre.likes + (IF ldone.of = "unlike" THEN -1 ELSE 1)
        /\ video.likedBy = ldone.pre.likedBy

C23_OptimisticPatchShown ==
    \A s \in Sessions :
        (page[s] = "home" /\ lpc[s] = "mutationFlag")
            => hcache[s] = Flag(~lsnap[s].isLiked)

\* C24: whenever no handler of the CommentModal is under way, after replies
\* were created and deleted one at a time, the replyCount of every comment
\* equals the number of reply records under it
C24_ReplyCountIsReplies ==
    Quiet => \A id \in DOMAIN vcomments :
                 vcomments[id].replyCount = Cardinality(vcomments[id].replies)

\* C25: once a handleFollow of the profile page has completed, a load of the
\* same profile by the same user computes isFollowing = TRUE after a follow
\* and FALSE after an unfollow, and after a follow the Followers list of the
\* profile and the Following list of the user hold the edge
C25_LoadSeesWrittenEdge ==
    (Quiet /\ lastDone.op \in {"follow", "unfollow"} /\ lastDone.via = "page") =>
        LET u == lastDone.actor
            t == lastDone.target
        IN /\ CheckFollowStatus(u, t) = (lastDone.op = "follow")
           /\ lastDone.op = "follow" =>
                  /\ u \in FetchUsers(t, "followers")
                  /\ t \in FetchUsers(u, "following")

\* C26: after handleProfileUpdate by the owner the record users/{uid}/profile
\* still exists with the name and the followers and following counters it had
\* before the edit, and the index users/{uid}/videos holds the same entries
C26_EditKeepsAccount ==
    \A s \in Sessions :
        "pre" \in DOMAIN pdone[s] =>
            LET u == pdone[s].id
            IN /\ profile[u].exists
               /\ profile[u] = pdone[s].pre.profile
               /\ pname[u].name = pdone[s].pre.name
               /\ {e \in uvideos : e[1] = u} = pdone[s].pre.videos

\* C27: the write-back of the video record by a comment submission or deletion
\* of the CommentModal changes only the comments field: the likes, likedBy and
\* views stored at that moment, whoever wrote them, are the same afterwards
C27_WriteBackKeepsOthers ==
    [][\A s \in Sessions :
          (cpc[s] = "setVideo" /\ cpc'[s] = "fetch") =>
              /\ video'.likes = video.likes
              /\ video'.likedBy = video.likedBy
              /\ video'.views = video.views]_vars

\* C28: the write-back of the parent comment that updates replyCount, in
\* handleReply and in the deletion of a reply, removes no reply record and no
\* likedBy flag that is stored under that comment when it is issued
C28_WriteBackKeepsThread ==
    [][\A s \in Sessions :
          (cpc[s] = "setComment" /\ cpc'[s] = "fetch") =>
              LET before == Stored(vcomments, cpre[s].parent)
                  after == Stored(vcomments', cpre[s].parent)
              IN /\ before.replies \subseteq after.replies
                 /\ before.likedBy \subseteq after.likedBy]_vars

\* C29: once two handleLikeComment runs, one of each of the two users, have
\* completed on a comment that started without likes, the comment has
\* likes = 2 and likedBy holds both users
C29_TwoCommentLikes ==
    (Quiet /\ nops = 2 /\ Stored(vcomments, 1).likedBy = Users) =>
        Stored(vcomments, 1).likes = 2

\* C30: a handler issues a store write only while a user is signed in: no
\* handler of a signed-out tab is at one of its writes, and the last write
\* issued to a video or a comment was issued by a signed-in user
C30_WritesOnlySignedIn ==
    /\ \A s \in Sessions : (lpc[s] # "idle" \/ cpc[s] # "idle") => user[s] # NoUser
    /\ ldone.op # "none" => ldone.actor # NoUser
    /\ cdone.op # "none" => cdone.actor # NoUser

=============================================================================
